---- MODULE Spec2Model ----
(***************************************************************************)
(* Workflow orchestration core of genai_launchpad (app/core): the schema   *)
(* model, the DAG validator, the run-scoped TaskContext, the engine loop   *)
(* of Workflow.__run with router dispatch, and the asyncio.gather fan-out  *)
(* of ConcurrentNode.                                                      *)
(***************************************************************************)
EXTENDS Integers, Sequences, FiniteSets, TLC

\* ------------------------------------------------------------------------
\* Bounds of the model
\* ------------------------------------------------------------------------

\* NodeConfig entries in a schema drawn for the validator
MaxConfigs == 2
\* rules a router class lists
MaxRules == 2
\* children of a generated FanOut node
MaxSiblings == 2
\* nodes the loop enters in one run
MaxVisits == 5
\* context operations one node body makes
MaxBodySteps == 2
\* context operations one FanOut child makes
MaxSiblingSteps == 1
\* chunks upload_file.read(8192) yields for one upload
MaxChunks == 2

\* update_node calls a FanOut child's process() makes
MaxWrites == 1

\* DocumentProcessor.MIN_CONTENT_LENGTH
MIN_CONTENT_LENGTH == 50
\* the confidence below which the fallback encodings are tried, in percent
MinConfidence == 70

\* ------------------------------------------------------------------------
\* Node identities and schema values
\* ------------------------------------------------------------------------

None == "None"

\* plain Node subclasses
TaskIds == {"A", "B", "C"}
\* BaseRouter subclasses
RouterIds == {"R"}
\* ConcurrentNode subclasses
FanOutIds == {"F"}
NodeIds == TaskIds \cup RouterIds \cup FanOutIds

SeqsUpTo(S, n) == UNION {[1..k -> S] : k \in 0..n}

ToSet(s) == {s[i] : i \in 1..Len(s)}

\* NodeConfig(node=..., connections=..., is_router=..., concurrent_nodes=...)
NodeConfig(n, conns, r, conc) ==
    [node |-> n, connections |-> conns, is_router |-> r, concurrent_nodes |-> conc]

\* NodeConfig(node=n): every other field at its default
DefaultConfig(n) == NodeConfig(n, <<>>, FALSE, <<>>)

\* WorkflowSchema(start=..., nodes=[...])
WorkflowSchema(s, cfgs) == [start |-> s, nodes |-> cfgs]

\* the None a config lookup yields when no NodeConfig matches
NoConfig == NodeConfig(None, <<>>, FALSE, <<>>)

\* next((nc for nc in schema.nodes if nc.node == node), None)
FirstConfig(S, n) ==
    LET idx == {i \in 1..Len(S.nodes) : S.nodes[i].node = n}
    IN IF idx = {} THEN NoConfig
       ELSE S.nodes[CHOOSE i \in idx : \A j \in idx : i <= j]

\* ------------------------------------------------------------------------
\* WorkflowValidator
\* ------------------------------------------------------------------------

RECURSIVE dfs(_, _, _), dfsNeighbors(_, _, _, _)

\* the inner dfs(node) of _has_cycle; st carries visited, rec_stack and the
\* value returned so far
dfs(S, node, st) ==
    LET st1 == [found |-> FALSE,
                visited |-> st.visited \cup {node},
                rec_stack |-> st.rec_stack \cup {node}]
        nc == FirstConfig(S, node)
        st2 == IF nc # NoConfig THEN dfsNeighbors(S, nc.connections, 1, st1) ELSE st1
    IN IF st2.found THEN st2
       ELSE [st2 EXCEPT !.rec_stack = @ \ {node}]

\* the loop "for neighbor in node_config.connections" of dfs
dfsNeighbors(S, conns, i, st) ==
    IF i > Len(conns) THEN st
    ELSE LET nb == conns[i] IN
         IF nb \notin st.visited
         THEN LET r == dfs(S, nb, st) IN
              IF r.found THEN r ELSE dfsNeighbors(S, conns, i + 1, r)
         ELSE IF nb \in st.rec_stack
              THEN [st EXCEPT !.found = TRUE]
              ELSE dfsNeighbors(S, conns, i + 1, st)

RECURSIVE hasCycleFrom(_, _, _)

\* the loop "for node_config in self.workflow_schema.nodes" of _has_cycle
hasCycleFrom(S, i, st) ==
    IF i > Len(S.nodes) THEN FALSE
    ELSE IF S.nodes[i].node \notin st.visited
         THEN LET r == dfs(S, S.nodes[i].node, st) IN
              IF r.found THEN TRUE ELSE hasCycleFrom(S, i + 1, r)
         ELSE hasCycleFrom(S, i + 1, st)

_has_cycle(S) ==
    hasCycleFrom(S, 1, [found |-> FALSE, visited |-> {}, rec_stack |-> {}])

RECURSIVE bfsFirstSuccessor(_, _, _)

\* the "while queue" loop extending the queue with the first successor only
bfsFirstSuccessor(S, queue, reachable) ==
    IF queue = <<>> THEN reachable
    ELSE LET node == Head(queue)
             rest == Tail(queue)
             nc == FirstConfig(S, node)
         IN IF node \notin reachable
            THEN bfsFirstSuccessor(S,
                     IF nc # NoConfig /\ nc.connections # <<>>
                     THEN Append(rest, nc.connections[1]) ELSE rest,
                     reachable \cup {node})
            ELSE bfsFirstSuccessor(S, rest, reachable)

RECURSIVE bfs(_, _, _)

\* the loop "while queue" of _get_reachable_nodes
bfs(S, queue, reachable) ==
    IF queue = <<>> THEN reachable
    ELSE LET node == Head(queue)
             rest == Tail(queue)
             nc == FirstConfig(S, node)
         IN IF node \notin reachable
            THEN bfs(S, IF nc # NoConfig THEN rest \o nc.connections ELSE rest,
                     reachable \cup {node})
            ELSE bfs(S, rest, reachable)

_get_reachable_nodes(S) == bfs(S, <<S.start>>, {})

\* set(nc.node for nc in schema.nodes) - reachable_nodes
unreachable_nodes(S) ==
    {S.nodes[i].node : i \in 1..Len(S.nodes)} \ _get_reachable_nodes(S)

\* what _validate_dag raises, or its normal return
_validate_dag(S) ==
    IF _has_cycle(S)
    THEN [kind |-> "cycle", names |-> {}]
    ELSE IF unreachable_nodes(S) # {}
         THEN [kind |-> "unreachable", names |-> unreachable_nodes(S)]
         ELSE [kind |-> "ok", names |-> {}]

\* _validate_connections without the "not node_config.is_router" test
validateConnectionsIgnoringRouterFlag(S) ==
    LET bad == {i \in 1..Len(S.nodes) : Len(S.nodes[i].connections) > 1}
    IN IF bad = {} THEN [kind |-> "ok", names |-> {}]
       ELSE [kind |-> "arity",
             names |-> {S.nodes[CHOOSE i \in bad : \A j \in bad : i <= j].node}]

\* what _validate_connections raises, or its normal return
_validate_connections(S) ==
    LET bad == {i \in 1..Len(S.nodes) :
                   Len(S.nodes[i].connections) > 1 /\ ~S.nodes[i].is_router}
    IN IF bad = {} THEN [kind |-> "ok", names |-> {}]
       ELSE [kind |-> "arity",
             names |-> {S.nodes[CHOOSE i \in bad : \A j \in bad : i <= j].node}]

\* WorkflowValidator.validate: the ValueError raised, or "ok"
validate(S) ==
    IF _validate_dag(S).kind # "ok" THEN _validate_dag(S)
    ELSE _validate_connections(S)

\* ------------------------------------------------------------------------
\* Workflow construction
\* ------------------------------------------------------------------------

RECURSIVE addConnectedOverwriting(_, _, _)

\* the inner loop without its "if connected_node not in nodes" test
addConnectedOverwriting(conns, j, m) ==
    IF j > Len(conns) THEN m
    ELSE addConnectedOverwriting(conns, j + 1,
                                 (conns[j] :> DefaultConfig(conns[j])) @@ m)

RECURSIVE addConnected(_, _, _)

\* the loop "for connected_node in node_config.connections" of _initialize_nodes
addConnected(conns, j, m) ==
    IF j > Len(conns) THEN m
    ELSE addConnected(conns, j + 1,
                      IF conns[j] \in DOMAIN m THEN m
                      ELSE (conns[j] :> DefaultConfig(conns[j])) @@ m)

RECURSIVE initNodesFrom(_, _, _)

\* the loop "for node_config in self.workflow_schema.nodes" of _initialize_nodes
initNodesFrom(S, i, m) ==
    IF i > Len(S.nodes) THEN m
    ELSE initNodesFrom(S, i + 1,
                       addConnected(S.nodes[i].connections, 1,
                                    (S.nodes[i].node :> S.nodes[i]) @@ m))

_initialize_nodes(S) == initNodesFrom(S, 1, <<>>)

\* ------------------------------------------------------------------------
\* TaskContext
\* ------------------------------------------------------------------------

\* TaskContext(event=event): nodes and metadata empty, should_stop False
TaskContext(event) ==
    [event |-> event, nodes |-> <<>>, metadata |-> <<>>, should_stop |-> FALSE]

\* self.nodes[node_name] = kwargs: the previous record dropped
update_node_replacing(c, node_name, kwargs) ==
    [c EXCEPT !.nodes = (node_name :> kwargs) @@ @]

\* update_node storing the merged record and clearing the stop flag
update_node_clearing_stop(c, node_name, kwargs) ==
    [c EXCEPT !.nodes =
                 (node_name :> (kwargs @@ (IF node_name \in DOMAIN c.nodes
                                            THEN c.nodes[node_name] ELSE <<>>))) @@ @,
              !.should_stop = FALSE]

\* self.nodes[node_name] = {**self.nodes.get(node_name, {}), **kwargs}
update_node(c, node_name, kwargs) ==
    [c EXCEPT !.nodes =
        (node_name :> (kwargs @@ (IF node_name \in DOMAIN c.nodes
                                   THEN c.nodes[node_name] ELSE <<>>))) @@ @]

\* self.should_stop = True
stop_workflow(c) == [c EXCEPT !.should_stop = TRUE]

\* task_context.metadata["nodes"] = self.nodes
inject_nodes(c, m) == [c EXCEPT !.metadata = ("nodes" :> m) @@ @]

\* task_context.metadata.pop("nodes")
pop_nodes(c) ==
    [c EXCEPT !.metadata = [k \in (DOMAIN @) \ {"nodes"} |-> @[k]]]

\* ------------------------------------------------------------------------
\* Events and routers
\* ------------------------------------------------------------------------

\* raw payloads handed to run(): a field-name -> value mapping
RawEvents == {("flag" :> TRUE), ("flag" :> FALSE), <<>>}

\* event_schema(**event): the typed event, or a validation error when the
\* required field is missing
event_schema(raw) ==
    IF "flag" \in DOMAIN raw /\ raw["flag"] \in BOOLEAN
    THEN [ok |-> TRUE, event |-> [type |-> "Event", flag |-> raw["flag"]]]
    ELSE [ok |-> FALSE, event |-> raw]

\* RouterNode.determine_next_node of a rule [when, to]: the rule's node when
\* its condition on the event holds, else None
determine_next_node(rule, c) ==
    IF (rule.when = "flag" /\ c.event.flag) \/ (rule.when = "notflag" /\ ~c.event.flag)
    THEN rule.to ELSE None

RECURSIVE routeLastMatch(_, _, _, _)

\* the loop of route() running every rule and keeping the last result
routeLastMatch(def, c, i, evaluated) ==
    IF i > Len(def.routes)
    THEN LET hits == {k \in ToSet(evaluated) :
                         determine_next_node(def.routes[k], c) # None}
         IN [next |-> IF hits # {}
                      THEN def.routes[CHOOSE k \in hits : \A j \in hits : j <= k].to
                      ELSE def.fallback,
             evaluated |-> evaluated]
    ELSE routeLastMatch(def, c, i + 1, Append(evaluated, i))

RECURSIVE routeFrom(_, _, _, _)

\* the loop "for route_node in self.routes" of BaseRouter.route followed by
\* the fallback; evaluated lists the rules whose determine_next_node ran
routeFrom(def, c, i, evaluated) ==
    IF i > Len(def.routes)
    THEN [next |-> IF def.fallback # None THEN def.fallback ELSE None,
          evaluated |-> evaluated]
    ELSE LET next_node == determine_next_node(def.routes[i], c) IN
         IF next_node # None
         THEN [next |-> next_node, evaluated |-> Append(evaluated, i)]
         ELSE routeFrom(def, c, i + 1, Append(evaluated, i))

\* route() returning None after the rules, the fallback never consulted
routeNoFallback(def, c) == routeFrom([def EXCEPT !.fallback = None], c, 1, <<>>)

\* BaseRouter.route
route(def, c) == routeFrom(def, c, 1, <<>>)

\* ------------------------------------------------------------------------
\* State
\* ------------------------------------------------------------------------

VARIABLES
    schema,     \* the class attribute workflow_schema
    routerDef,  \* routes and fallback of the BaseRouter subclass R
    wf,         \* "none": not constructed, "failed": __init__ raised, "ready"
    verr,       \* the outcome of validator.validate() in __init__
    validations,\* history: how many times validator.validate() was called
    nodes,      \* self.nodes, the materialized identity -> NodeConfig map
    pc,         \* where the run is: idle, loop, body, gather, next, returned, raised
    mode,       \* "run" (asyncio.run) or "run_async" (the caller's event loop)
    cur,        \* current_node_class, None when the chain has ended
    ctx,        \* the run's TaskContext
    bodySteps,  \* context operations the executing node body has made
    sibs,       \* the tasks asyncio.gather runs for the FanOut group
    gather,     \* the gather future: pending, its result list, or its exception
    err,        \* the exception run() raised, None when it did not raise
    outcome,    \* Completed or Stopped once run() has returned
    visited,    \* history: node identities the loop entered, in order
    executed,   \* history: node identities whose process() the loop invoked
    raisedOrder,\* history: siblings in the order in which they raised
    returnedOrder, \* history: siblings in the order in which they returned
    evals,      \* history: one record per BaseRouter.route call
    log,        \* history: the logging calls, in order
    call,       \* the TaskContext method call made last, outside a run
    me,         \* which of the two interleaved runs holds the event loop
    parked,     \* the frame of the other run: its locals while it is suspended
    heap,       \* the objects reached through a suspended run's task_context
    script,     \* what process() of each node class does, fixed per program
    session,    \* the SQLAlchemy session db_session hands out
    task,       \* where process_incoming_event is, and its locals
    disk,       \* the files in settings.temp_dir: name -> bytes written
    handler,    \* where temporary_file_handler is, and its locals
    doc         \* the extract_text call: its arguments and its outcome

vars == <<schema, routerDef, wf, verr, validations, nodes, pc, mode, cur, ctx, bodySteps,
          sibs, gather, err, outcome, visited, executed, raisedOrder,
          returnedOrder, evals, log, call, me, parked, heap, script,
          session, task, disk, handler, doc>>

\* state of the components exercised on their own, untouched by a run
otherVars == <<call, me, parked, heap, script, session, task, disk, handler, doc>>

\* state of the document application: upload storage and text extraction
appVars == <<disk, handler, doc>>

\* state of the worker task and its database session
dbVars == <<session, task>>

\* state of two runs sharing one Workflow instance
runsVars == <<me, parked, heap, script>>

runVars == <<pc, mode, cur, ctx, bodySteps, sibs, gather, err, outcome,
             visited, executed, raisedOrder, returnedOrder, evals, log>>

NoRoutes == [routes |-> <<>>, fallback |-> None]

GatherPending == [state |-> "pending", results |-> <<>>, error |-> None]

NoCall == [op |-> "none", node_name |-> None, kwargs |-> <<>>]

\* temporary_file_handler not entered
NoHandler ==
    [pc |-> "idle", upload |-> <<>>, name |-> None, temp_path |-> None,
     read |-> 0, created |-> {}, body |-> "none", raised |-> "none"]

\* extract_text not called
NoDoc ==
    [pc |-> "idle", file_type |-> "", raw |-> <<>>,
     detected |-> [encoding |-> None, confidence |-> 0], fault |-> "none",
     outcome |-> [ok |-> FALSE, text |-> <<>>, metadata |-> <<>>, type |-> "",
                  message |-> ""]]

\* no session: no call made on it, nothing pending, nothing committed
NoSession == [calls |-> <<>>, pending |-> <<>>, committed |-> <<>>]

\* process_incoming_event not called
NoTask ==
    [pc |-> "idle", event_id |-> 0, db_event |-> <<>>, task_context |-> <<>>,
     body |-> "none", exc |-> "none", raised |-> "none"]

\* the locals of a run_async call that has not started
IdleFrame ==
    [pc |-> "idle", mode |-> None, cur |-> None, bodySteps |-> 0, sibs |-> <<>>,
     gather |-> GatherPending, err |-> None, outcome |-> None, visited |-> <<>>,
     executed |-> <<>>, raisedOrder |-> <<>>, returnedOrder |-> <<>>,
     evals |-> <<>>, seen |-> TaskContext(<<>>)]

\* everything but the schema, the router class and the node bodies, before
\* __init__
Fresh ==
    /\ wf = "none"
    /\ verr = [kind |-> "none", names |-> {}]
    /\ validations = 0
    /\ nodes = <<>>
    /\ pc = "idle"
    /\ mode = None
    /\ cur = None
    /\ ctx = TaskContext(<<>>)
    /\ bodySteps = 0
    /\ sibs = <<>>
    /\ gather = GatherPending
    /\ err = None
    /\ outcome = None
    /\ visited = <<>>
    /\ executed = <<>>
    /\ raisedOrder = <<>>
    /\ returnedOrder = <<>>
    /\ evals = <<>>
    /\ log = <<>>
    /\ call = NoCall
    /\ me = 1
    /\ parked = IdleFrame
    /\ heap = <<>>
    /\ session = NoSession
    /\ task = NoTask
    /\ disk = <<>>
    /\ handler = NoHandler
    /\ doc = NoDoc

\* Fresh, the node bodies left to the actions
Blank == Fresh /\ script = <<>>

\* successor lists drawn for a NodeConfig: none, one, or two successors
ConnLists(ids) == SeqsUpTo(ids, 2)

\* schemas handed to the validator: every list of at most MaxConfigs
\* NodeConfigs over the task identities, repeated identities included, and
\* every list of three NodeConfigs over two identities
ValidatorConfigs(ids) ==
    {NodeConfig(n, c, r, <<>>) : n \in ids, c \in ConnLists(ids), r \in BOOLEAN}

InitV ==
    /\ \/ \E s \in TaskIds, k \in 0..MaxConfigs :
             \E cfgs \in [1..k -> ValidatorConfigs(TaskIds)] :
                schema = WorkflowSchema(s, cfgs)
       \/ \E s \in {"A", "B"}, cfgs \in [1..3 -> ValidatorConfigs({"A", "B"})] :
             schema = WorkflowSchema(s, cfgs)
    /\ routerDef = NoRoutes
    /\ Blank

\* __init__ materializing the node map without calling the validator
ConstructUnvalidated ==
    /\ wf = "none"
    /\ verr' = verr
    /\ validations' = validations
    /\ wf' = "ready"
    /\ nodes' = _initialize_nodes(schema)
    /\ UNCHANGED <<otherVars, schema, routerDef, runVars>>

\* Workflow.__init__: validate, then materialize the node map
Construct ==
    /\ wf = "none"
    /\ verr' = validate(schema)
    /\ validations' = validations + 1
    /\ IF validate(schema).kind = "ok"
       THEN wf' = "ready" /\ nodes' = _initialize_nodes(schema)
       ELSE wf' = "failed" /\ nodes' = nodes
    /\ UNCHANGED <<otherVars, schema, routerDef, runVars>>

NextV == Construct

SpecV == InitV /\ [][NextV]_vars

\* ------------------------------------------------------------------------
\* Programs the engine runs
\* ------------------------------------------------------------------------

\* identities of the generated engine schemas: two tasks and the router
EngineIds == {"A", "B", "R"}

\* rules a router class lists: [when, to], matching on the event's flag
Rules == {[when |-> w, to |-> t] : w \in {"flag", "notflag"}, t \in TaskIds \ {"C"}}

\* rule lists of at most MaxRules rules; a rule listed twice never decides on
\* its second occurrence, so the lists hold each rule at most once
RuleLists ==
    {rs \in SeqsUpTo(Rules, MaxRules) : Len(rs) = Cardinality(ToSet(rs))}

\* router classes: a rule list, a fallback or none
RouterDefs ==
    {[routes |-> rs, fallback |-> f] :
        rs \in RuleLists, f \in EngineIds \cup {None}}

\* whether BaseRouter.route can be reached on R under this schema
Routable(S) ==
    /\ validate(S).kind = "ok"
    /\ FirstConfig(S, "R").is_router
    /\ FirstConfig(S, "R").connections # <<>>

\* generated: every list of at most two NodeConfigs over EngineIds
GeneratedSchemas ==
    {WorkflowSchema(s, cfgs) :
        s \in EngineIds,
        cfgs \in SeqsUpTo(ValidatorConfigs(EngineIds), 2)}

\* A(Task) -> R(Router) -> B | C, rule "flag == true -> B", fallback C
Scenario1Schema ==
    WorkflowSchema("A", <<NodeConfig("A", <<"R">>, FALSE, <<>>),
                          NodeConfig("R", <<"B", "C">>, TRUE, <<>>),
                          NodeConfig("B", <<>>, FALSE, <<>>),
                          NodeConfig("C", <<>>, FALSE, <<>>)>>)

Scenario1Router == [routes |-> <<[when |-> "flag", to |-> "B"]>>, fallback |-> "C"]

\* the router class of scenario 1 flagged is_router with no successor listed
DeadEndRouterSchema ==
    WorkflowSchema("R", <<NodeConfig("R", <<>>, TRUE, <<>>)>>)

\* generated schemas on which the router class is given rules: R routable,
\* one NodeConfig per identity, is_router on R alone, no successor repeated
RouterSchemas ==
    {S \in GeneratedSchemas :
        /\ Routable(S)
        /\ \A i, j \in 1..Len(S.nodes) : S.nodes[i].node = S.nodes[j].node => i = j
        /\ \A i \in 1..Len(S.nodes) :
              /\ S.nodes[i].is_router <=> S.nodes[i].node = "R"
              /\ Len(S.nodes[i].connections) =
                     Cardinality(ToSet(S.nodes[i].connections))}

\* FanOut node F with its children, alone or followed by a task
FanOutSchemas ==
    {WorkflowSchema("F", <<NodeConfig("F", c, FALSE, ch)>>) :
        c \in {<<>>, <<"A">>}, ch \in SeqsUpTo({"B", "C"}, MaxSiblings)}

\* FanOut node F with children X, Y, Z
Scenario3Schema ==
    WorkflowSchema("F", <<NodeConfig("F", <<>>, FALSE, <<"A", "B", "C">>)>>)

Init ==
    /\ \/ schema \in GeneratedSchemas /\ routerDef = NoRoutes
       \/ schema \in RouterSchemas /\ routerDef \in RouterDefs
       \/ schema \in {Scenario1Schema, DeadEndRouterSchema} /\ routerDef = Scenario1Router
       \/ schema \in FanOutSchemas \cup {Scenario3Schema} /\ routerDef = NoRoutes
    /\ Blank

\* ------------------------------------------------------------------------
\* Workflow.__run
\* ------------------------------------------------------------------------

\* logging.info / logging.error of node_context and of the loop
LogStart(n) == <<"Starting node", n>>
LogError(n) == <<"Error in node", n>>
LogFinish(n) == <<"Finished node", n>>
LogStop == <<"Stopping workflow execution">>

\* the calls made on a workflow: run(), and run_async() as well when the
\* schema has a FanOut node (without one no task outlives __run, and the two
\* entry points run the same coroutine)
EntryPoints(S) ==
    IF \E i \in 1..Len(S.nodes) : S.nodes[i].node \in FanOutIds
    THEN {"run", "run_async"} ELSE {"run"}

\* run() handing the raw event to the loop, event_schema(**event) never called
RunStartUnparsed ==
    /\ wf = "ready"
    /\ pc = "idle"
    /\ \E m \in EntryPoints(schema), raw \in RawEvents :
          /\ mode' = m
          /\ ctx' = inject_nodes(TaskContext(raw), nodes)
          /\ cur' = schema.start
          /\ pc' = "loop"
    /\ UNCHANGED <<otherVars, schema, routerDef, wf, verr, validations, nodes, bodySteps, sibs, gather,
                   err, outcome, visited, executed, raisedOrder, returnedOrder,
                   evals, log>>

\* run() calling the validator again before the loop
RunStartValidating ==
    /\ wf = "ready"
    /\ validations' = validations + 1
    /\ pc = "idle"
    /\ \E m \in EntryPoints(schema), raw \in RawEvents :
          /\ mode' = m
          /\ IF event_schema(raw).ok
             THEN /\ ctx' = inject_nodes([TaskContext(raw) EXCEPT
                                             !.event = event_schema(raw).event],
                                         nodes)
                  /\ cur' = schema.start
                  /\ pc' = "loop"
                  /\ err' = err
             ELSE /\ ctx' = TaskContext(raw)
                  /\ cur' = cur
                  /\ pc' = "raised"
                  /\ err' = "ValidationError"
    /\ UNCHANGED <<otherVars, schema, routerDef, wf, verr, nodes, bodySteps, sibs, gather,
                   outcome, visited, executed, raisedOrder, returnedOrder, evals, log>>

\* run(event) / run_async(event) up to the loop: build the context, parse the
\* event, inject the node map, take the start node
RunStart ==
    /\ wf = "ready"
    /\ pc = "idle"
    /\ \E m \in EntryPoints(schema), raw \in RawEvents :
          /\ mode' = m
          /\ IF event_schema(raw).ok
             THEN /\ ctx' = inject_nodes([TaskContext(raw) EXCEPT
                                             !.event = event_schema(raw).event],
                                         nodes)
                  /\ cur' = schema.start
                  /\ pc' = "loop"
                  /\ err' = err
             ELSE /\ ctx' = TaskContext(raw)
                  /\ cur' = cur
                  /\ pc' = "raised"
                  /\ err' = "ValidationError"
    /\ UNCHANGED <<otherVars, schema, routerDef, wf, verr, validations, nodes, bodySteps, sibs, gather,
                   outcome, visited, executed, raisedOrder, returnedOrder, evals, log>>

\* "while current_node_class" is false: pop the node map and return
RunCompleted ==
    /\ pc = "loop"
    /\ cur = None
    /\ ctx' = pop_nodes(ctx)
    /\ pc' = "returned"
    /\ outcome' = "Completed"
    /\ UNCHANGED <<otherVars, schema, routerDef, wf, verr, validations, nodes, mode, cur, bodySteps, sibs,
                   gather, err, visited, executed, raisedOrder, returnedOrder, evals, log>>

\* the break on should_stop returning the context as it is, map included
RunStoppedUnstripped ==
    /\ pc = "loop"
    /\ cur # None
    /\ ctx.should_stop
    /\ log' = Append(log, LogStop)
    /\ pc' = "returned"
    /\ outcome' = "Stopped"
    /\ UNCHANGED <<otherVars, schema, routerDef, wf, verr, validations, nodes, mode, cur, ctx, bodySteps,
                   sibs, gather, err, visited, executed, raisedOrder,
                   returnedOrder, evals>>

\* "if task_context.should_stop": log, break, pop the node map and return
RunStopped ==
    /\ pc = "loop"
    /\ cur # None
    /\ ctx.should_stop
    /\ log' = Append(log, LogStop)
    /\ ctx' = pop_nodes(ctx)
    /\ pc' = "returned"
    /\ outcome' = "Stopped"
    /\ UNCHANGED <<otherVars, schema, routerDef, wf, verr, validations, nodes, mode, cur, bodySteps, sibs,
                   gather, err, visited, executed, raisedOrder, returnedOrder, evals>>

\* the loop without its "if task_context.should_stop" test
CanEnterIgnoringStop ==
    /\ pc = "loop"
    /\ cur # None
    /\ Len(visited) < MaxVisits

\* the loop may take another node: the bound on visits is the model's
CanEnter ==
    /\ pc = "loop"
    /\ cur # None
    /\ ~ctx.should_stop
    /\ Len(visited) < MaxVisits

\* self.nodes[current_node_class] raises KeyError
EnterMissing ==
    /\ CanEnter
    /\ cur \notin DOMAIN nodes
    /\ pc' = "raised"
    /\ err' = "KeyError"
    /\ UNCHANGED <<otherVars, schema, routerDef, wf, verr, validations, nodes, mode, cur, ctx, bodySteps,
                   sibs, gather, outcome, visited, executed, raisedOrder,
                   returnedOrder, evals, log>>

\* a node that is no BaseRouter: enter node_context and invoke process
EnterTask ==
    /\ CanEnter
    /\ cur \in DOMAIN nodes
    /\ nodes[cur].node \notin RouterIds
    /\ log' = Append(log, LogStart(cur))
    /\ visited' = Append(visited, cur)
    /\ executed' = Append(executed, nodes[cur].node)
    /\ bodySteps' = 0
    /\ pc' = "body"
    /\ UNCHANGED <<otherVars, schema, routerDef, wf, verr, validations, nodes, mode, cur, ctx, sibs, gather,
                   err, outcome, raisedOrder, returnedOrder, evals>>

\* the loop calling process() on a BaseRouter class as it does on a task
EnterRouterProcessing ==
    /\ CanEnter
    /\ cur \in DOMAIN nodes
    /\ nodes[cur].node \in RouterIds
    /\ log' = log \o <<LogStart(cur), LogFinish(cur)>>
    /\ visited' = Append(visited, cur)
    /\ executed' = Append(executed, cur)
    /\ ctx' = update_node(ctx, cur, ("x" :> 1))
    /\ pc' = "next"
    /\ UNCHANGED <<otherVars, schema, routerDef, wf, verr, validations, nodes,
                   mode, cur, bodySteps, sibs, gather, err, outcome,
                   raisedOrder, returnedOrder, evals>>

\* a BaseRouter: node_context is entered and left, process is not invoked
EnterRouter ==
    /\ CanEnter
    /\ cur \in DOMAIN nodes
    /\ nodes[cur].node \in RouterIds
    /\ log' = log \o <<LogStart(cur), LogFinish(cur)>>
    /\ visited' = Append(visited, cur)
    /\ pc' = "next"
    /\ UNCHANGED <<otherVars, schema, routerDef, wf, verr, validations, nodes, mode, cur, ctx, bodySteps,
                   sibs, gather, err, outcome, executed, raisedOrder, returnedOrder, evals>>

\* what a node body may do to the context between two suspension points:
\* update_node, stop_workflow, or an entry written to the metadata mapping
Effect(c, n, e) ==
    CASE e = "update" -> update_node(c, n, ("x" :> 1))
      [] e = "stop" -> stop_workflow(c)
      [] e = "annotate" -> [c EXCEPT !.metadata = ("priority" :> "high") @@ @]

\* the executing process() of a task calls update_node or stop_workflow
BodyEffect ==
    /\ pc = "body"
    /\ cur \notin FanOutIds
    /\ bodySteps < MaxBodySteps
    /\ \E e \in {"update", "stop", "annotate"} : ctx' = Effect(ctx, cur, e)
    /\ bodySteps' = bodySteps + 1
    /\ UNCHANGED <<otherVars, schema, routerDef, wf, verr, validations, nodes, pc, mode, cur, sibs, gather,
                   err, outcome, visited, executed, raisedOrder, returnedOrder, evals, log>>

\* process() of a task returns the context; node_context logs the exit
BodyReturn ==
    /\ pc = "body"
    /\ cur \notin FanOutIds
    /\ log' = Append(log, LogFinish(cur))
    /\ pc' = "next"
    /\ UNCHANGED <<otherVars, schema, routerDef, wf, verr, validations, nodes, mode, cur, ctx, bodySteps,
                   sibs, gather, err, outcome, visited, executed, raisedOrder,
                   returnedOrder, evals>>

\* node_context without its "finally": a raising body leaves no exit entry
BodyRaiseWithoutExit ==
    /\ pc = "body"
    /\ cur \notin FanOutIds
    /\ log' = Append(log, LogError(cur))
    /\ pc' = "raised"
    /\ err' = <<"Error", cur>>
    /\ UNCHANGED <<otherVars, schema, routerDef, wf, verr, validations, nodes,
                   mode, cur, ctx, bodySteps, sibs, gather, outcome, visited,
                   executed, raisedOrder, returnedOrder, evals>>

\* process() of a task raises: node_context logs the error and the exit and re-raises,
\* and the exception leaves __run
BodyRaise ==
    /\ pc = "body"
    /\ cur \notin FanOutIds
    /\ log' = log \o <<LogError(cur), LogFinish(cur)>>
    /\ pc' = "raised"
    /\ err' = <<"Error", cur>>
    /\ UNCHANGED <<otherVars, schema, routerDef, wf, verr, validations, nodes, mode, cur, ctx, bodySteps,
                   sibs, gather, outcome, visited, executed, raisedOrder,
                   returnedOrder, evals>>


\* ------------------------------------------------------------------------
\* ConcurrentNode.execute_nodes_concurrently
\* ------------------------------------------------------------------------

\* the exception a child's process raises
SiblingError(i) == [exc |-> "Error", node |-> sibs[i].node, child |-> i]

\* the FanOut's process awaits execute_nodes_concurrently: one coroutine per
\* entry of its NodeConfig's concurrent_nodes, handed to asyncio.gather
GatherLaunch ==
    /\ pc = "body"
    /\ cur \in FanOutIds
    /\ LET node_config == ctx.metadata["nodes"][cur]
           children == node_config.concurrent_nodes
       IN /\ sibs' = [i \in 1..Len(children) |->
                        [node |-> children[i], st |-> "running", steps |-> 0]]
          /\ gather' = IF children = <<>>
                       THEN [GatherPending EXCEPT !.state = "done"]
                       ELSE GatherPending
    /\ pc' = "gather"
    /\ UNCHANGED <<otherVars, schema, routerDef, wf, verr, validations, nodes, mode, cur, ctx, bodySteps,
                   err, outcome, visited, executed, raisedOrder, returnedOrder, evals, log>>

\* a child task can be scheduled: the gather is awaited, or the run has
\* raised inside the caller's event loop, which keeps running the children
SibRunnable(i) ==
    /\ i \in DOMAIN sibs
    /\ sibs[i].st = "running"
    /\ pc = "gather" \/ (pc = "raised" /\ mode = "run_async")

\* a child's process() calls update_node or stop_workflow
SibEffect ==
    \E i \in DOMAIN sibs, e \in {"update", "stop"} :
        /\ SibRunnable(i)
        /\ sibs[i].steps < MaxSiblingSteps
        /\ ctx' = Effect(ctx, sibs[i].node, e)
        /\ sibs' = [sibs EXCEPT ![i].steps = @ + 1]
        /\ UNCHANGED <<otherVars, schema, routerDef, wf, verr, validations, nodes, pc, mode, cur, bodySteps,
                       gather, err, outcome, visited, executed, raisedOrder,
                       returnedOrder, evals, log>>

\* the result list built in the order in which the children returned
GatherResultsByCompletion(ss) ==
    LET order == returnedOrder \o
                    <<CHOOSE i \in DOMAIN ss : i \notin ToSet(returnedOrder)>>
    IN [k \in DOMAIN ss |-> [returned_by |-> ss[order[k]].node, child |-> order[k]]]

\* the result list gather builds: the children's return values by position
GatherResults(ss) == [i \in DOMAIN ss |-> [returned_by |-> ss[i].node, child |-> i]]

\* a child's process() returns; the last one to return resolves the gather
SibReturn ==
    \E i \in DOMAIN sibs :
        /\ SibRunnable(i)
        /\ sibs' = [sibs EXCEPT ![i].st = "done"]
        /\ gather' = IF gather.state = "pending"
                        /\ \A j \in DOMAIN sibs : j # i => sibs[j].st = "done"
                     THEN [gather EXCEPT !.state = "done", !.results = GatherResults(sibs)]
                     ELSE gather
        /\ returnedOrder' = Append(returnedOrder, i)
        /\ UNCHANGED <<otherVars, schema, routerDef, wf, verr, validations, nodes, pc, mode, cur, ctx, bodySteps,
                       err, outcome, visited, executed, raisedOrder, evals, log>>

\* a child's process() raises and its exception replaces the gather's
SibRaiseOverwrites ==
    \E i \in DOMAIN sibs :
        /\ SibRunnable(i)
        /\ sibs' = [sibs EXCEPT ![i].st = "failed"]
        /\ raisedOrder' = Append(raisedOrder, i)
        /\ gather' = [gather EXCEPT !.state = "failed", !.error = SiblingError(i)]
        /\ UNCHANGED <<otherVars, schema, routerDef, wf, verr, validations, nodes, pc, mode, cur, ctx, bodySteps,
                       err, outcome, visited, executed, returnedOrder, evals, log>>

\* a child's process() raises; the first exception resolves the gather
SibRaise ==
    \E i \in DOMAIN sibs :
        /\ SibRunnable(i)
        /\ sibs' = [sibs EXCEPT ![i].st = "failed"]
        /\ raisedOrder' = Append(raisedOrder, i)
        /\ gather' = IF gather.state = "pending"
                     THEN [gather EXCEPT !.state = "failed", !.error = SiblingError(i)]
                     ELSE gather
        /\ UNCHANGED <<otherVars, schema, routerDef, wf, verr, validations, nodes, pc, mode, cur, ctx, bodySteps,
                       err, outcome, visited, executed, returnedOrder, evals, log>>

\* the gather hands its result list to the FanOut's process, which returns
GatherReturn ==
    /\ pc = "gather"
    /\ gather.state = "done"
    /\ log' = Append(log, LogFinish(cur))
    /\ pc' = "next"
    /\ UNCHANGED <<otherVars, schema, routerDef, wf, verr, validations, nodes, mode, cur, ctx, bodySteps,
                   sibs, gather, err, outcome, visited, executed, raisedOrder,
                   returnedOrder, evals>>

\* asyncio.run cancels the tasks still pending when its coroutine raises
CancelPending(ss) ==
    [i \in DOMAIN ss |->
        IF ss[i].st = "running" THEN [ss[i] EXCEPT !.st = "cancelled"] ELSE ss[i]]

\* the gather raises into the FanOut's process and out of __run
GatherRaise ==
    /\ pc = "gather"
    /\ gather.state = "failed"
    /\ log' = log \o <<LogError(cur), LogFinish(cur)>>
    /\ pc' = "raised"
    /\ err' = gather.error
    /\ sibs' = IF mode = "run" THEN CancelPending(sibs) ELSE sibs
    /\ UNCHANGED <<otherVars, schema, routerDef, wf, verr, validations, nodes, mode, cur, ctx, bodySteps,
                   gather, outcome, visited, executed, raisedOrder, returnedOrder, evals>>

\* ------------------------------------------------------------------------
\* Workflow._get_next_node_class
\* ------------------------------------------------------------------------

\* "if not node_config or not node_config.connections: return None"
NextNone ==
    /\ pc = "next"
    /\ FirstConfig(schema, cur) = NoConfig \/ FirstConfig(schema, cur).connections = <<>>
    /\ cur' = None
    /\ pc' = "loop"
    /\ UNCHANGED <<otherVars, schema, routerDef, wf, verr, validations, nodes, mode, ctx, bodySteps, sibs,
                   gather, err, outcome, visited, executed, raisedOrder,
                       returnedOrder, evals, log>>

\* the is_router test made without the test for successors before it
RouterFlaggedIgnoringSuccessors ==
    /\ pc = "next"
    /\ FirstConfig(schema, cur) # NoConfig
    /\ FirstConfig(schema, cur).is_router

\* the NodeConfig is flagged is_router and has successors
RouterFlagged ==
    /\ pc = "next"
    /\ FirstConfig(schema, cur) # NoConfig
    /\ FirstConfig(schema, cur).connections # <<>>
    /\ FirstConfig(schema, cur).is_router

\* a flagged BaseRouter advanced like a plain node, by connections[0]
NextRoutedFirstSuccessor ==
    /\ RouterFlagged
    /\ nodes[cur].node \in RouterIds
    /\ cur' = FirstConfig(schema, cur).connections[1]
    /\ pc' = "loop"
    /\ UNCHANGED <<otherVars, schema, routerDef, wf, verr, validations, nodes, mode, ctx, bodySteps, sibs,
                   gather, err, outcome, visited, executed, raisedOrder,
                       returnedOrder, evals, log>>

\* a flagged BaseRouter advanced to any one of its declared successors
NextRoutedAnySuccessor ==
    /\ RouterFlagged
    /\ nodes[cur].node \in RouterIds
    /\ cur' \in ToSet(FirstConfig(schema, cur).connections)
    /\ pc' = "loop"
    /\ UNCHANGED <<otherVars, schema, routerDef, wf, verr, validations, nodes, mode, ctx, bodySteps, sibs,
                   gather, err, outcome, visited, executed, raisedOrder,
                       returnedOrder, evals, log>>

\* _handle_router on a BaseRouter: route() picks the next node
NextRouted ==
    /\ RouterFlagged
    /\ nodes[cur].node \in RouterIds
    /\ cur' = route(routerDef, ctx).next
    /\ evals' = Append(evals, [router |-> cur,
                               evaluated |-> route(routerDef, ctx).evaluated,
                               next |-> route(routerDef, ctx).next])
    /\ pc' = "loop"
    /\ UNCHANGED <<otherVars, schema, routerDef, wf, verr, validations, nodes, mode, ctx, bodySteps, sibs,
                   gather, err, outcome, visited, executed, raisedOrder, returnedOrder, log>>

\* a rule's determine_next_node raises inside router.route(): the call is
\* made after node_context was left, so the exception leaves __run unlogged
NextRouteRaise ==
    /\ RouterFlagged
    /\ nodes[cur].node \in RouterIds
    /\ routerDef.routes # <<>>
    /\ pc' = "raised"
    /\ err' = <<"Error", cur>>
    /\ UNCHANGED <<otherVars, schema, routerDef, wf, verr, validations, nodes,
                   mode, cur, ctx, bodySteps, sibs, gather, outcome, visited,
                   executed, raisedOrder, returnedOrder, evals, log>>

\* _handle_router on a node that is no BaseRouter: it has no route()
NextNotARouter ==
    /\ RouterFlagged
    /\ nodes[cur].node \notin RouterIds
    /\ pc' = "raised"
    /\ err' = "AttributeError"
    /\ UNCHANGED <<otherVars, schema, routerDef, wf, verr, validations, nodes, mode, cur, ctx, bodySteps,
                   sibs, gather, outcome, visited, executed, raisedOrder,
                   returnedOrder, evals, log>>

\* the successor taken from the children a NodeConfig lists, when it lists any
NextFirstAmongChildren ==
    /\ pc = "next"
    /\ FirstConfig(schema, cur) # NoConfig
    /\ FirstConfig(schema, cur).connections # <<>>
    /\ ~FirstConfig(schema, cur).is_router
    /\ cur' = IF FirstConfig(schema, cur).concurrent_nodes # <<>>
              THEN FirstConfig(schema, cur).concurrent_nodes[1]
              ELSE FirstConfig(schema, cur).connections[1]
    /\ pc' = "loop"
    /\ UNCHANGED <<otherVars, schema, routerDef, wf, verr, validations, nodes,
                   mode, ctx, bodySteps, sibs, gather, err, outcome, visited,
                   executed, raisedOrder, returnedOrder, evals, log>>

\* "return node_config.connections[0]"
NextFirst ==
    /\ pc = "next"
    /\ FirstConfig(schema, cur) # NoConfig
    /\ FirstConfig(schema, cur).connections # <<>>
    /\ ~FirstConfig(schema, cur).is_router
    /\ cur' = FirstConfig(schema, cur).connections[1]
    /\ pc' = "loop"
    /\ UNCHANGED <<otherVars, schema, routerDef, wf, verr, validations, nodes, mode, ctx, bodySteps, sibs,
                   gather, err, outcome, visited, executed, raisedOrder,
                       returnedOrder, evals, log>>

Next ==
    \/ Construct
    \/ RunStart
    \/ RunCompleted
    \/ RunStopped
    \/ EnterMissing
    \/ EnterTask
    \/ EnterRouter
    \/ BodyEffect
    \/ BodyReturn
    \/ BodyRaise
    \/ GatherLaunch
    \/ SibEffect
    \/ SibReturn
    \/ SibRaise
    \/ GatherReturn
    \/ GatherRaise
    \/ NextNone
    \/ NextRouted
    \/ NextRouteRaise
    \/ NextNotARouter
    \/ NextFirst

Spec == Init /\ [][Next]_vars

\* ------------------------------------------------------------------------
\* TaskContext on its own: any sequence of update_node and stop_workflow
\* ------------------------------------------------------------------------

\* keyword arguments handed to update_node: any fields among x, y
FieldNames == {"x", "y"}
FieldValues == {1, 2}
Kwargs == UNION {[D -> FieldValues] : D \in SUBSET FieldNames}

InitT ==
    /\ schema = WorkflowSchema("A", <<>>)
    /\ routerDef = NoRoutes
    /\ Blank

\* task_context.update_node(node_name, **kwargs)
CallUpdateNode ==
    /\ \E n \in {"A", "B"}, kw \in Kwargs :
          /\ ctx' = update_node(ctx, n, kw)
          /\ call' = [op |-> "update_node", node_name |-> n, kwargs |-> kw]
    /\ UNCHANGED <<schema, routerDef, wf, verr, validations, nodes, pc, mode, cur, bodySteps,
                   sibs, gather, err, outcome, visited, executed, raisedOrder,
                   returnedOrder, evals, log, runsVars, dbVars, appVars>>

\* task_context.stop_workflow()
CallStopWorkflow ==
    /\ ctx' = stop_workflow(ctx)
    /\ call' = [op |-> "stop_workflow", node_name |-> None, kwargs |-> <<>>]
    /\ UNCHANGED <<schema, routerDef, wf, verr, validations, nodes, pc, mode, cur, bodySteps,
                   sibs, gather, err, outcome, visited, executed, raisedOrder,
                   returnedOrder, evals, log, runsVars, dbVars, appVars>>

NextT == CallUpdateNode \/ CallStopWorkflow

SpecT == InitT /\ [][NextT]_vars

\* ------------------------------------------------------------------------
\* Two runs on one Workflow instance, interleaved by the event loop
\* ------------------------------------------------------------------------

RunIds == {1, 2}

Other(r) == IF r = 1 THEN 2 ELSE 1

\* a TaskContext whose nodes and metadata were class-level dicts, the same
\* two objects in every instance
ContextOfSharedDefaults(r) ==
    [self |-> <<"TaskContext", r>>, nodes |-> <<"nodes", 0>>,
     metadata |-> <<"metadata", 0>>]

\* the objects TaskContext(event=event) creates in run r: the model instance
\* and one dict per default_factory
ContextOf(r) ==
    [self |-> <<"TaskContext", r>>, nodes |-> <<"nodes", r>>,
     metadata |-> <<"metadata", r>>]

\* the heap once the running coroutine has written context c through refs
Store(h, refs, c) ==
    LET written == {refs.self, refs.nodes, refs.metadata} IN
    [o \in DOMAIN h \cup written |->
        IF o = refs.self THEN [event |-> c.event, should_stop |-> c.should_stop]
        ELSE IF o = refs.nodes THEN c.nodes
        ELSE IF o = refs.metadata THEN c.metadata
        ELSE h[o]]

\* the context a coroutine reads through refs
Load(h, refs) ==
    [event |-> h[refs.self].event, nodes |-> h[refs.nodes],
     metadata |-> h[refs.metadata], should_stop |-> h[refs.self].should_stop]

\* node bodies: the context operations process() makes, one per suspension
\* point, and whether it returns or raises
Scripts ==
    {[effects |-> <<"update">>, ends |-> "return"],
     [effects |-> <<"stop">>, ends |-> "return"],
     [effects |-> <<"update">>, ends |-> "raise"]}

\* FanOut F with its children, then router R choosing between A and B; in
\* the last schema the task A is flagged is_router as well
InterleavedSchemas ==
    {WorkflowSchema("F", <<NodeConfig("F", <<"R">>, FALSE, ch),
                           NodeConfig("R", <<"A", "B">>, TRUE, <<>>),
                           NodeConfig("A", <<>>, FALSE, <<>>),
                           NodeConfig("B", <<>>, FALSE, <<>>)>>) :
        ch \in {<<>>, <<"B", "C">>}}
    \cup
    {WorkflowSchema("F", <<NodeConfig("F", <<"R">>, FALSE, <<>>),
                           NodeConfig("R", <<"A", "B">>, TRUE, <<>>),
                           NodeConfig("A", <<"B">>, TRUE, <<>>),
                           NodeConfig("B", <<>>, FALSE, <<>>)>>)}

\* rule "flag == true -> A" with fallback B, fallback C (a class the schema
\* does not configure) or none
InterleavedRouters ==
    {[routes |-> <<[when |-> "flag", to |-> "A"]>>, fallback |-> f] :
        f \in {"B", "C", None}}

InitR ==
    /\ schema \in InterleavedSchemas
    /\ routerDef \in InterleavedRouters
    /\ script \in [TaskIds -> Scripts]
    /\ Fresh

\* the locals of the running coroutine
Frame ==
    [pc |-> pc, mode |-> mode, cur |-> cur, bodySteps |-> bodySteps, sibs |-> sibs,
     gather |-> gather, err |-> err, outcome |-> outcome, visited |-> visited,
     executed |-> executed, raisedOrder |-> raisedOrder,
     returnedOrder |-> returnedOrder, evals |-> evals, seen |-> ctx]

\* the running coroutine gives up the event loop: it awaits inside a process()
\* under run_async, or its run is over
Suspended ==
    \/ pc \in {"body", "gather"} /\ mode = "run_async"
    \/ pc \in {"returned", "raised"}

\* the event loop resumes the other run, or the caller starts it
Switch ==
    /\ wf = "ready"
    /\ Suspended
    /\ parked.pc \in {"idle", "body", "gather"}
    /\ heap' = Store(heap, ContextOf(me), ctx)
    /\ parked' = Frame
    /\ me' = Other(me)
    /\ pc' = parked.pc
    /\ mode' = parked.mode
    /\ cur' = parked.cur
    /\ bodySteps' = parked.bodySteps
    /\ sibs' = parked.sibs
    /\ gather' = parked.gather
    /\ err' = parked.err
    /\ outcome' = parked.outcome
    /\ visited' = parked.visited
    /\ executed' = parked.executed
    /\ raisedOrder' = parked.raisedOrder
    /\ returnedOrder' = parked.returnedOrder
    /\ evals' = parked.evals
    /\ ctx' = IF parked.pc = "idle" THEN TaskContext(<<>>)
              ELSE Load(heap', ContextOf(Other(me)))
    /\ UNCHANGED <<schema, routerDef, wf, verr, validations, nodes, log, call, script, dbVars,
                   appVars>>

\* run_async(event), or run(event) when no event loop is running
Call ==
    /\ RunStart
    /\ parked.pc \in {"body", "gather"} => mode' = "run_async"

\* process() of a task makes the next context operation of its body
PlayEffect ==
    /\ BodyEffect
    /\ bodySteps < Len(script[cur].effects)
    /\ ctx' = Effect(ctx, cur, script[cur].effects[bodySteps + 1])

\* process() of a task has made its operations and returns
PlayReturn ==
    /\ BodyReturn
    /\ bodySteps = Len(script[cur].effects)
    /\ script[cur].ends = "return"

\* process() of a task has made its operations and raises
PlayRaise ==
    /\ BodyRaise
    /\ bodySteps = Len(script[cur].effects)
    /\ script[cur].ends = "raise"

\* a child makes the next context operation of its body
PlaySibEffect ==
    /\ SibEffect
    /\ \E i \in DOMAIN sibs :
          /\ sibs'[i].steps # sibs[i].steps
          /\ sibs[i].steps < Len(script[sibs[i].node].effects)
          /\ ctx' = Effect(ctx, sibs[i].node,
                           script[sibs[i].node].effects[sibs[i].steps + 1])

\* a child has made its operations and returns
PlaySibReturn ==
    /\ SibReturn
    /\ \E i \in DOMAIN sibs :
          /\ sibs'[i].st # sibs[i].st
          /\ sibs[i].steps = Len(script[sibs[i].node].effects)
          /\ script[sibs[i].node].ends = "return"

\* a child has made its operations and raises
PlaySibRaise ==
    /\ SibRaise
    /\ \E i \in DOMAIN sibs :
          /\ sibs'[i].st # sibs[i].st
          /\ sibs[i].steps = Len(script[sibs[i].node].effects)
          /\ script[sibs[i].node].ends = "raise"

NextR ==
    \/ Construct
    \/ Call
    \/ Switch
    \/ RunCompleted
    \/ RunStopped
    \/ EnterMissing
    \/ EnterTask
    \/ EnterRouter
    \/ PlayEffect
    \/ PlayReturn
    \/ PlayRaise
    \/ GatherLaunch
    \/ PlaySibEffect
    \/ PlaySibReturn
    \/ PlaySibRaise
    \/ GatherReturn
    \/ GatherRaise
    \/ NextNone
    \/ NextRouted
    \/ NextNotARouter
    \/ NextFirst

SpecR == InitR /\ [][NextR]_vars

\* ------------------------------------------------------------------------
\* process_incoming_event inside db_session
\* ------------------------------------------------------------------------

EventIds == {1, 2}

\* the row repository.get finds for an id: the event's payload, no result yet
Rows == {[data |-> raw, task_context |-> <<>>] : raw \in RawEvents}

\* what a statement can raise: a subclass of Exception, or a BaseException
\* outside Exception (KeyboardInterrupt, SystemExit)
ExceptionKinds == {"Exception", "BaseException"}

\* TaskContext.model_dump(mode="json"): plain mappings, the event model
\* dumped to its fields
model_dump(c) ==
    [event |-> [k \in DOMAIN c.event \ {"type"} |-> c.event[k]],
     nodes |-> c.nodes, metadata |-> c.metadata, should_stop |-> c.should_stop]

\* contexts workflow.run(data) may return, whichever workflow is registered
RunReturns(raw) ==
    IF event_schema(raw).ok
    THEN LET c == [TaskContext(raw) EXCEPT !.event = event_schema(raw).event]
         IN {c, update_node(c, "A", ("x" :> 1)), stop_workflow(c)}
    ELSE {}

InitD ==
    /\ schema = WorkflowSchema("A", <<>>)
    /\ routerDef = NoRoutes
    /\ Blank

\* the statement at hand raises: "except Exception" catches the first kind
\* only, the other goes straight to "finally"
BodyRaised(t, kind) ==
    [t EXCEPT !.pc = IF kind = "Exception" THEN "except" ELSE "finally",
              !.body = "raised", !.exc = kind]

\* process_incoming_event(event_id): SessionLocal() and the yield
OpenSession ==
    /\ task.pc = "idle"
    /\ \E id \in EventIds :
          task' = [NoTask EXCEPT !.pc = "get", !.event_id = id, !.body = "running"]
    /\ session' = NoSession
    /\ UNCHANGED <<schema, routerDef, wf, verr, validations, nodes, runVars, call, runsVars, appVars>>

\* repository.get(id=event_id), and the ValueError when there is no row
RepositoryGet ==
    /\ task.pc = "get"
    /\ \/ \E row \in Rows : task' = [task EXCEPT !.pc = "run", !.db_event = <<row>>]
       \/ task' = BodyRaised(task, "Exception")
       \/ \E k \in ExceptionKinds : task' = BodyRaised(task, k)
    /\ UNCHANGED <<schema, routerDef, wf, verr, validations, nodes, runVars, call, runsVars, appVars, session>>

\* workflow.run(db_event.data).model_dump(mode="json")
WorkflowRun ==
    /\ task.pc = "run"
    /\ \/ \E c \in RunReturns(task.db_event[1].data) :
             task' = [task EXCEPT !.pc = "update", !.task_context = <<model_dump(c)>>]
       \/ \E k \in ExceptionKinds : task' = BodyRaised(task, k)
    /\ UNCHANGED <<schema, routerDef, wf, verr, validations, nodes, runVars, call, runsVars, appVars, session>>

\* db_event.task_context = task_context; repository.update(obj=db_event)
RepositoryUpdate ==
    /\ task.pc = "update"
    /\ session' = [session EXCEPT !.pending =
                      <<[id |-> task.event_id, task_context |-> task.task_context[1]]>>]
    /\ \/ task' = [task EXCEPT !.pc = "commit", !.body = "completed",
                               !.db_event = <<[task.db_event[1] EXCEPT
                                                  !.task_context = task.task_context]>>]
       \/ \E k \in ExceptionKinds : task' = BodyRaised(task, k)
    /\ UNCHANGED <<schema, routerDef, wf, verr, validations, nodes, runVars, call, runsVars, appVars>>

\* the block is left normally: session.commit(), which may itself raise
Commit ==
    /\ task.pc = "commit"
    /\ \/ /\ session' = [session EXCEPT !.calls = Append(@, "commit"),
                                        !.committed = session.pending,
                                        !.pending = <<>>]
          /\ task' = [task EXCEPT !.pc = "finally"]
       \/ /\ session' = [session EXCEPT !.calls = Append(@, "commit")]
          /\ \E k \in ExceptionKinds :
                task' = [task EXCEPT !.exc = k,
                            !.pc = IF k = "Exception" THEN "except" ELSE "finally"]
    /\ UNCHANGED <<schema, routerDef, wf, verr, validations, nodes, runVars, call, runsVars, appVars>>

\* "except Exception as ex": session.rollback(), logging.error(ex), raise ex
Rollback ==
    /\ task.pc = "except"
    /\ session' = [session EXCEPT !.calls = Append(@, "rollback"), !.pending = <<>>]
    /\ task' = [task EXCEPT !.pc = "finally"]
    /\ UNCHANGED <<schema, routerDef, wf, verr, validations, nodes, runVars, call, runsVars, appVars>>

\* a "finally" that commits whatever the session holds before closing it
CloseCommitting ==
    /\ task.pc = "finally"
    /\ session' = [session EXCEPT !.calls = @ \o <<"commit", "close">>,
                                  !.committed = session.pending,
                                  !.pending = <<>>]
    /\ task' = [task EXCEPT !.pc = "done", !.raised = task.exc]
    /\ UNCHANGED <<schema, routerDef, wf, verr, validations, nodes, runVars, call, runsVars, appVars>>

\* "finally": session.close(); the exception, if any, reaches the caller
Close ==
    /\ task.pc = "finally"
    /\ session' = [session EXCEPT !.calls = Append(@, "close"), !.pending = <<>>]
    /\ task' = [task EXCEPT !.pc = "done", !.raised = task.exc]
    /\ UNCHANGED <<schema, routerDef, wf, verr, validations, nodes, runVars, call, runsVars, appVars>>

NextD ==
    \/ OpenSession
    \/ RepositoryGet
    \/ WorkflowRun
    \/ RepositoryUpdate
    \/ Commit
    \/ Rollback
    \/ Close

SpecD == InitD /\ [][NextD]_vars

\* ------------------------------------------------------------------------
\* TemporaryFileManager.temporary_file_handler
\* ------------------------------------------------------------------------

\* the chunks an upload yields: at most MaxChunks blocks of bytes
Uploads == SeqsUpTo({"b1", "b2"}, MaxChunks)

\* names generate_temp_filename can return: one per uuid4 drawn
TempNames == {"doc_analysis_1", "doc_analysis_2", "doc_analysis_3"}

InitF ==
    /\ schema = WorkflowSchema("A", <<>>)
    /\ routerDef = NoRoutes
    /\ Blank

\* an exception leaves the try block of the handler for its "finally"
HandlerRaised(h, e) == [h EXCEPT !.pc = "finally", !.raised = e]

\* "async with temporary_file_handler(upload_file)": temp_path = None, and
\* save_upload_file picks a fresh name
HandlerEnter ==
    /\ handler.pc \in {"idle", "done"}
    /\ \E up \in Uploads, n \in TempNames \ DOMAIN disk :
          handler' = [NoHandler EXCEPT !.pc = "open", !.upload = up, !.name = n]
    /\ UNCHANGED <<schema, routerDef, wf, verr, validations, nodes, runVars, call, runsVars,
                   dbVars, disk, doc>>

\* mkdir and open(temp_path, "wb"): the file exists from here on
OpenFile ==
    /\ handler.pc = "open"
    /\ \/ /\ disk' = (handler.name :> <<>>) @@ disk
          /\ handler' = [handler EXCEPT !.pc = "write", !.created = {handler.name}]
       \/ /\ disk' = disk
          /\ handler' = HandlerRaised(handler, "OSError")
    /\ UNCHANGED <<schema, routerDef, wf, verr, validations, nodes, runVars, call, runsVars,
                   dbVars, doc>>

\* one turn of "while chunk := await upload_file.read(8192)": the chunk is
\* written, or read or write raises and the with block closes the file
StreamChunk ==
    /\ handler.pc = "write"
    /\ handler.read < Len(handler.upload)
    /\ \/ /\ disk' = [disk EXCEPT ![handler.name] =
                         Append(@, handler.upload[handler.read + 1])]
          /\ handler' = [handler EXCEPT !.read = @ + 1]
       \/ /\ disk' = disk
          /\ \E e \in {"ReadError", "OSError"} : handler' = HandlerRaised(handler, e)
    /\ UNCHANGED <<schema, routerDef, wf, verr, validations, nodes, runVars, call, runsVars,
                   dbVars, doc>>

\* read returns b"": the loop ends, os.chmod, and save_upload_file returns the
\* path, which the handler binds to temp_path and yields
SaveReturns ==
    /\ handler.pc = "write"
    /\ handler.read = Len(handler.upload)
    /\ \/ handler' = [handler EXCEPT !.pc = "body", !.temp_path = handler.name,
                                     !.body = "running"]
       \/ handler' = HandlerRaised(handler, "OSError")
    /\ UNCHANGED <<schema, routerDef, wf, verr, validations, nodes, runVars, call, runsVars,
                   dbVars, disk, doc>>

\* the block under "async with" completes or raises
HandlerBody ==
    /\ handler.pc = "body"
    /\ \/ handler' = [handler EXCEPT !.pc = "finally", !.body = "completed"]
       \/ handler' = [HandlerRaised(handler, "Error") EXCEPT !.body = "raised"]
    /\ UNCHANGED <<schema, routerDef, wf, verr, validations, nodes, runVars, call, runsVars,
                   dbVars, disk, doc>>

\* cleanup_file: unlink the file if it exists, any exception swallowed
cleanup_file(d, file_path, unlinked) ==
    IF file_path \in DOMAIN d /\ unlinked
    THEN [n \in DOMAIN d \ {file_path} |-> d[n]]
    ELSE d

\* "finally: if temp_path: cleanup_file(temp_path)"
HandlerFinally ==
    /\ handler.pc = "finally"
    /\ IF handler.temp_path # None
       THEN \E unlinked \in BOOLEAN : disk' = cleanup_file(disk, handler.temp_path, unlinked)
       ELSE disk' = disk
    /\ handler' = [handler EXCEPT !.pc = "done"]
    /\ UNCHANGED <<schema, routerDef, wf, verr, validations, nodes, runVars, call, runsVars,
                   dbVars, doc>>

NextF ==
    \/ HandlerEnter
    \/ OpenFile
    \/ StreamChunk
    \/ SaveReturns
    \/ HandlerBody
    \/ HandlerFinally

SpecF == InitF /\ [][NextF]_vars

\* ------------------------------------------------------------------------
\* DocumentProcessor.extract_text
\* ------------------------------------------------------------------------

\* n copies of x
Rep(x, n) == [i \in 1..n |-> x]

\* bytes of a file: a letter, a blank, a line feed, and a byte that is no
\* valid UTF-8 or ASCII
Letter == "a"
Space == " "
LineFeed == "\n"
BadByte == "xFF"

Whitespace == {Space, LineFeed}

\* file contents: blanks, a word, more text, blanks, with word lengths on
\* both sides of MIN_CONTENT_LENGTH
RawFiles ==
    {Rep(Space, i) \o Rep(Letter, n) \o mid \o Rep(Space, j) :
        i \in 0..1, j \in 0..1,
        n \in {0, 1, MIN_CONTENT_LENGTH - 3, MIN_CONTENT_LENGTH - 2,
               MIN_CONTENT_LENGTH - 1, MIN_CONTENT_LENGTH},
        mid \in {<<>>, <<Space, Letter>>, <<LineFeed, Letter>>, <<BadByte>>}}

\* file_type arguments
FileTypes == {"txt", "pdf", "docx", "TXT", ""}

\* what chardet.detect may answer: an encoding or none, and a confidence
Detections ==
    {[encoding |-> e, confidence |-> c] :
        e \in {"utf-8", "ascii", "ISO-8859-1"}, c \in {MinConfidence - 1, MinConfidence, 99}}
    \cup {[encoding |-> None, confidence |-> 0]}

\* what can go wrong outside the code: nothing, an OSError of open() or of
\* the PDF library, a KeyboardInterrupt delivered during the call
Faults == {"none", "OSError", "KeyboardInterrupt"}

\* subclasses of Exception among the exception types
ExceptionTypes == {"ProcessingError", "OSError", "UnicodeDecodeError"}

Returned(text, metadata) ==
    [ok |-> TRUE, text |-> text, metadata |-> metadata, type |-> "", message |-> ""]

Raised(type, message) ==
    [ok |-> FALSE, text |-> <<>>, metadata |-> <<>>, type |-> type, message |-> message]

\* bytes.decode(encoding): strict for UTF-8 and ASCII, total for the
\* one-byte encodings; errors="replace" puts U+FFFD for an invalid byte
decode(raw, encoding, replacing) ==
    IF encoding \in {"utf-8", "ascii"} /\ ~replacing
          /\ \E i \in DOMAIN raw : raw[i] = BadByte
    THEN [ok |-> FALSE, text |-> <<>>]
    ELSE [ok |-> TRUE,
          text |-> [i \in DOMAIN raw |->
                      IF raw[i] # BadByte THEN raw[i]
                      ELSE IF replacing THEN "uFFFD" ELSE "y"]]

\* str.strip()
strip(text) ==
    LET keep == {i \in DOMAIN text : text[i] \notin Whitespace} IN
    IF keep = {} THEN <<>>
    ELSE LET first == CHOOSE i \in keep : \A j \in keep : i <= j
             last == CHOOSE i \in keep : \A j \in keep : j <= i
         IN [k \in 1..(last - first + 1) |-> text[first + k - 1]]

\* len(text.split()): the maximal runs of non-whitespace characters
word_count(text) ==
    Cardinality({i \in DOMAIN text :
                    /\ text[i] \notin Whitespace
                    /\ i = 1 \/ text[i - 1] \in Whitespace})

\* len(text.splitlines())
line_count(text) ==
    Cardinality({i \in DOMAIN text : text[i] = LineFeed})
    + (IF text # <<>> /\ text[Len(text)] # LineFeed THEN 1 ELSE 0)

\* "except Exception as e: if isinstance(e, ProcessingError): raise" left
\* out: whatever was raised goes on unchanged
wrapNothing(res, message) == res

\* the handler closing extract_text and its helpers: a ProcessingError is
\* re-raised, any other Exception becomes a ProcessingError, and what is no
\* Exception passes through
wrap(res, message) ==
    IF ~res.ok /\ res.type \in ExceptionTypes /\ res.type # "ProcessingError"
    THEN Raised("ProcessingError", message)
    ELSE res

\* the first of utf-8, ascii, latin-1, cp1252 that decodes the bytes
fallback_decode(raw) ==
    IF decode(raw, "utf-8", FALSE).ok
    THEN [encoding |-> "utf-8", text |-> decode(raw, "utf-8", FALSE).text]
    ELSE IF decode(raw, "ascii", FALSE).ok
    THEN [encoding |-> "ascii", text |-> decode(raw, "ascii", FALSE).text]
    ELSE [encoding |-> "latin-1", text |-> decode(raw, "latin-1", FALSE).text]

\* the length check accepting only more than MIN_CONTENT_LENGTH characters
too_short_inclusive(text) == Len(strip(text)) <= MIN_CONTENT_LENGTH

\* "len(text_content.strip()) < DocumentProcessor.MIN_CONTENT_LENGTH"
too_short(text) == Len(strip(text)) < MIN_CONTENT_LENGTH

\* the try block of _extract_text_file
text_file_body(raw, detected, fault) ==
    IF fault # "none" THEN Raised(fault, "")
    ELSE IF raw = <<>> THEN Raised("ProcessingError", "File is empty")
    ELSE
    LET decoded ==
            IF detected.confidence < MinConfidence
            THEN fallback_decode(raw)
            ELSE IF decode(raw, detected.encoding, FALSE).ok
            THEN [encoding |-> detected.encoding,
                  text |-> decode(raw, detected.encoding, FALSE).text]
            ELSE [encoding |-> "utf-8 (with replacements)",
                  text |-> decode(raw, "utf-8", TRUE).text]
    IN IF too_short(decoded.text)
       THEN Raised("ProcessingError", "Document content too short")
       ELSE Returned(decoded.text,
                     [encoding |-> decoded.encoding,
                      confidence |-> detected.confidence,
                      file_size |-> Len(raw),
                      line_count |-> line_count(decoded.text),
                      word_count |-> word_count(decoded.text),
                      character_count |-> Len(decoded.text)])

_extract_text_file(raw, detected, fault) ==
    wrap(text_file_body(raw, detected, fault), "Failed to extract text from file")

\* "\n--- Page 1 ---\n"
PageHeader == <<LineFeed>> \o Rep("-", 14) \o <<LineFeed>>

\* _extract_pdf_file on a one-page PDF whose page text is raw, or on a PDF
\* without pages when raw is empty
_extract_pdf_file(raw, fault) ==
    wrap(IF fault # "none" THEN Raised(fault, "")
         ELSE IF raw = <<>> THEN Raised("ProcessingError", "PDF has no pages")
         ELSE LET text == strip(PageHeader \o decode(raw, "latin-1", FALSE).text
                                    \o <<LineFeed>>)
              IN IF Len(text) < MIN_CONTENT_LENGTH
                 THEN Raised("ProcessingError", "Could not extract sufficient text from PDF")
                 ELSE Returned(text, [pages |-> 1, word_count |-> word_count(text),
                                      character_count |-> Len(text),
                                      file_size |-> Len(raw)]),
         "Failed to extract text from PDF")

\* DocumentProcessor.extract_text
extract_text(file_type, raw, detected, fault) ==
    wrap(IF file_type = "txt" THEN _extract_text_file(raw, detected, fault)
         ELSE IF file_type = "pdf" THEN _extract_pdf_file(raw, fault)
         ELSE Raised("ProcessingError", "Unsupported file type"),
         "Text extraction failed")

InitP ==
    /\ schema = WorkflowSchema("A", <<>>)
    /\ routerDef = NoRoutes
    /\ Blank

\* await DocumentProcessor.extract_text(file_path, file_type) on a file with
\* the bytes raw
ExtractText ==
    /\ doc.pc = "idle"
    /\ \E ft \in FileTypes, raw \in RawFiles, det \in Detections, f \in Faults :
          doc' = [pc |-> "done", file_type |-> ft, raw |-> raw, detected |-> det,
                  fault |-> f, outcome |-> extract_text(ft, raw, det, f)]
    /\ UNCHANGED <<schema, routerDef, wf, verr, validations, nodes, runVars, call, runsVars,
                   dbVars, disk, handler>>

NextP == ExtractText

SpecP == InitP /\ [][NextP]_vars

\* ------------------------------------------------------------------------
\* FanOut children writing to the shared context
\* ------------------------------------------------------------------------

\* update_node(node_name=key, field=...) calls a child may make: two fields
\* of one key, and a field of another key
Writes ==
    {[key |-> "A", field |-> "x"], [key |-> "A", field |-> "y"],
     [key |-> "B", field |-> "x"]}

\* what a child's process() does: its update_node calls, in order
WriteScripts == SeqsUpTo(Writes, MaxWrites)

\* FanOut F whose concurrent_nodes are the first k of these classes
ChildClasses == <<"A", "B", "C">>

WriterSchemas ==
    {WorkflowSchema("F", <<NodeConfig("F", <<>>, FALSE, SubSeq(ChildClasses, 1, k))>>) :
        k \in 1..MaxSiblings}

InitU ==
    /\ schema \in WriterSchemas
    /\ routerDef = NoRoutes
    /\ script \in [1..Len(schema.nodes[1].concurrent_nodes) -> WriteScripts]
    /\ Fresh

\* child i makes its next update_node call with the dict merge dropped:
\* the record of the key is replaced by the fields written now
SibUpdateNodeReplacing ==
    \E i \in DOMAIN sibs :
        /\ SibRunnable(i)
        /\ sibs[i].steps < Len(script[i])
        /\ LET w == script[i][sibs[i].steps + 1]
           IN ctx' = [ctx EXCEPT !.nodes = (w.key :> (w.field :> i)) @@ @]
        /\ sibs' = [sibs EXCEPT ![i].steps = @ + 1]
        /\ UNCHANGED <<otherVars, schema, routerDef, wf, verr, validations, nodes,
                       pc, mode, cur, bodySteps, gather, err, outcome, visited,
                       executed, raisedOrder, returnedOrder, evals, log>>

\* child i makes its next update_node call, writing its own index; the call
\* holds no await, so no other child runs between its read and its write
SibUpdateNode ==
    \E i \in DOMAIN sibs :
        /\ SibRunnable(i)
        /\ sibs[i].steps < Len(script[i])
        /\ LET w == script[i][sibs[i].steps + 1]
           IN ctx' = update_node(ctx, w.key, (w.field :> i))
        /\ sibs' = [sibs EXCEPT ![i].steps = @ + 1]
        /\ UNCHANGED <<otherVars, schema, routerDef, wf, verr, validations, nodes,
                       pc, mode, cur, bodySteps, gather, err, outcome, visited,
                       executed, raisedOrder, returnedOrder, evals, log>>

\* a child has made its calls and returns
SibWrittenReturn ==
    /\ SibReturn
    /\ \E i \in DOMAIN sibs :
          /\ sibs'[i].st # sibs[i].st
          /\ sibs[i].steps = Len(script[i])

NextU ==
    \/ Construct
    \/ RunStart
    \/ EnterTask
    \/ GatherLaunch
    \/ SibUpdateNode
    \/ SibWrittenReturn
    \/ GatherReturn
    \/ NextNone
    \/ RunCompleted

SpecU == InitU /\ [][NextU]_vars

\* ------------------------------------------------------------------------
\* Schemas that differ in their concurrent_nodes only
\* ------------------------------------------------------------------------

\* A -> F -> R -> B | C, the FanOut F listing children among its ancestor A
\* and the task B; the top-level bodies return the context untouched
ChildrenSchemas ==
    {WorkflowSchema("A", <<NodeConfig("A", <<"F">>, FALSE, <<>>),
                           NodeConfig("F", <<"R">>, FALSE, ch),
                           NodeConfig("R", <<"B", "C">>, TRUE, <<>>)>>) :
        ch \in SeqsUpTo({"A", "B"}, MaxSiblings)}

InitH ==
    /\ schema \in ChildrenSchemas
    /\ routerDef = Scenario1Router
    /\ Blank

NextH ==
    \/ Construct
    \/ RunStart
    \/ RunCompleted
    \/ RunStopped
    \/ EnterTask
    \/ EnterRouter
    \/ BodyReturn
    \/ GatherLaunch
    \/ SibEffect
    \/ SibReturn
    \/ SibRaise
    \/ GatherReturn
    \/ GatherRaise
    \/ NextNone
    \/ NextRouted
    \/ NextRouteRaise
    \/ NextFirst

SpecH == InitH /\ [][NextH]_vars

\* ------------------------------------------------------------------------
\* The schema as a graph, read off its declarations
\* ------------------------------------------------------------------------

\* identities that have a NodeConfig
Configured(S) == {S.nodes[i].node : i \in 1..Len(S.nodes)}

\* every successor edge some NodeConfig of the schema declares
DeclaredEdges(S) ==
    UNION {{<<S.nodes[i].node, t>> : t \in ToSet(S.nodes[i].connections)} :
              i \in 1..Len(S.nodes)}

\* the successor edges of the first NodeConfig listed for each identity
FirstEdges(S) ==
    UNION {{<<n, t>> : t \in ToSet(FirstConfig(S, n).connections)} :
              n \in Configured(S)}

RECURSIVE Closure(_, _, _)

\* identities reachable from the set X along E in at most k steps
Closure(E, X, k) ==
    IF k = 0 THEN X
    ELSE Closure(E, X \cup {e[2] : e \in {d \in E : d[1] \in X}}, k - 1)

ReachableFrom(E, X) == Closure(E, X, Cardinality(NodeIds))

\* some edge of E lies on a directed cycle of E
HasDirectedCycle(E) == \E e \in E : e[1] \in ReachableFrom(E, {e[2]})

\* configured identities that no path of E reaches from start
Unreachable(S, E) == Configured(S) \ ReachableFrom(E, {S.start})

\* positions of the NodeConfigs with several successors and is_router false
ArityOffenders(S) ==
    {i \in 1..Len(S.nodes) :
        Len(S.nodes[i].connections) > 1 /\ ~S.nodes[i].is_router}

Constructed == wf # "none"

\* ------------------------------------------------------------------------
\* WorkflowValidator: cycles, reachability, arity
\* ------------------------------------------------------------------------

\* position of the first NodeConfig with several successors and is_router false
FirstArityOffender(S) ==
    CHOOSE i \in ArityOffenders(S) : \A j \in ArityOffenders(S) : i <= j

\* C2: every schema whose declared successor edges contain a directed cycle
\* (self-loops and cycles off the start's component included) is rejected by
\* validate() with the cycle error.
C2_DeclaredCycleRejected ==
    Constructed /\ HasDirectedCycle(DeclaredEdges(schema)) => verr.kind = "cycle"

C4_EveryOffenderNamed ==
    Constructed
        => /\ \A i \in ArityOffenders(schema) :
                 verr.kind # "ok" /\ schema.nodes[i].node \in verr.names
           /\ verr.kind = "arity" => ArityOffenders(schema) # {}

\* C4 amended: for a schema that passes the cycle and reachability checks,
\* validate() raises the arity error exactly when some NodeConfig has more
\* than one successor and is_router false, and the error names the node of
\* the first such NodeConfig in list order; a NodeConfig with is_router true
\* never triggers the arity error, whatever the schema.
C4_FirstOffenderNamed ==
    Constructed
        => /\ ~HasDirectedCycle(FirstEdges(schema))
                /\ Unreachable(schema, FirstEdges(schema)) = {}
                 => IF ArityOffenders(schema) # {}
                    THEN /\ verr.kind = "arity"
                         /\ verr.names =
                                {schema.nodes[FirstArityOffender(schema)].node}
                    ELSE verr.kind = "ok"
           /\ verr.kind = "arity" => ArityOffenders(schema) # {}

\* the arity error raised on a schema with two offending NodeConfigs of
\* different nodes
C4_Witness ==
    /\ verr.kind = "arity"
    /\ \E i, j \in ArityOffenders(schema) :
          i < j /\ schema.nodes[i].node # schema.nodes[j].node

\* C5: every schema that is acyclic, has every configured node reachable from
\* start, and has more than one successor only on is_router NodeConfigs
\* passes validate().
C5_WellFormedAccepted ==
    Constructed
      /\ ~HasDirectedCycle(DeclaredEdges(schema))
      /\ Unreachable(schema, DeclaredEdges(schema)) = {}
      /\ ArityOffenders(schema) = {}
        => verr.kind = "ok"

\* ------------------------------------------------------------------------
\* Workflow.__run: stop flag, construction, routing
\* ------------------------------------------------------------------------

\* the stop flag is set and the node that set it has finished
StopObserved == ctx.should_stop /\ pc \in {"next", "loop"}

\* C1: once a node body has set the stop flag and that node has finished,
\* the loop invokes no further node body, and the context run() returns is
\* the context that node left (event, node results and stop flag unchanged,
\* only the transient "nodes" entry of metadata removed).
C1_StopSemantics ==
    [][StopObserved
          => /\ executed' = executed
             /\ visited' = visited
             /\ ctx' = ctx \/ (pc' = "returned" /\ ctx' = pop_nodes(ctx))]_vars

\* a run stopped by its first node, whose result is in the returned context
\* and whose successor was never entered
C1_Witness ==
    /\ pc = "returned"
    /\ outcome = "Stopped"
    /\ executed = <<"A">>
    /\ cur = "B"
    /\ "A" \in DOMAIN ctx.nodes
    /\ "nodes" \notin DOMAIN ctx.metadata

\* C6: on a schema that fails validation __init__ raises, no workflow
\* instance exists, and no run, node visit or node body ever happens.
C6_NoRunOnInvalidSchema ==
    validate(schema).kind # "ok"
        => /\ wf # "ready"
           /\ pc = "idle"
           /\ visited = <<>>
           /\ executed = <<>>
           /\ sibs = <<>>
           /\ log = <<>>

\* construction has raised the cycle error on the schema A -> B, B -> A
C6_Witness ==
    /\ schema = WorkflowSchema("A", <<NodeConfig("A", <<"B">>, FALSE, <<>>),
                                      NodeConfig("B", <<"A">>, FALSE, <<>>)>>)
    /\ wf = "failed"
    /\ verr.kind = "cycle"

\* positions of the rules whose determine_next_node returns a node
Matching(def, c) ==
    {i \in 1..Len(def.routes) : determine_next_node(def.routes[i], c) # None}

\* the step in which _handle_router calls route()
Routes == Len(evals') = Len(evals) + 1

\* C7: when the engine routes out of a Router node and some rule matches,
\* the next node is the result of the first matching rule in declared order,
\* and exactly the rules up to and including that one were evaluated.
C7_FirstMatchWins ==
    [][Routes /\ Matching(routerDef, ctx) # {}
          => LET k == CHOOSE i \in Matching(routerDef, ctx) :
                          \A j \in Matching(routerDef, ctx) : i <= j
             IN /\ cur' = routerDef.routes[k].to
                /\ evals'[Len(evals')].evaluated = [i \in 1..k |-> i]]_vars

\* a router with two matching rules of different targets has routed to the
\* first one's target, the second rule not evaluated
C7_Witness ==
    /\ pc = "loop"
    /\ Len(evals) = 1
    /\ Matching(routerDef, ctx) = {1, 2}
    /\ routerDef.routes[1].to # routerDef.routes[2].to
    /\ cur = routerDef.routes[1].to
    /\ evals[1].evaluated = <<1>>

\* C8: when the engine routes out of a Router node and no rule matches, the
\* next node is the fallback, or none when no fallback is set; and with no
\* next node the only step of the run is to return the context as
\* Completed, no exception raised.
C8_FallbackOrCompleted ==
    [][/\ Routes /\ Matching(routerDef, ctx) = {}
            => /\ cur' = IF routerDef.fallback # None THEN routerDef.fallback ELSE None
               /\ pc' = "loop"
               /\ err' = None
       /\ pc = "loop" /\ cur = None
            => /\ pc' = "returned"
               /\ outcome' = "Completed"
               /\ err' = None
               /\ ctx' = pop_nodes(ctx)]_vars

\* a run Completed after a router with rules, none matching, and no fallback
C8_Witness ==
    /\ pc = "returned"
    /\ outcome = "Completed"
    /\ err = None
    /\ routerDef.routes # <<>>
    /\ routerDef.fallback = None
    /\ Matching(routerDef, ctx) = {}
    /\ evals # <<>>
    /\ evals[Len(evals)].next = None
    /\ Len(evals[Len(evals)].evaluated) = Len(routerDef.routes)

IsPrefix(s, t) == Len(s) <= Len(t) /\ \A i \in 1..Len(s) : s[i] = t[i]

\* the visit sequence the scenario states for the parsed event
Scenario1Expected ==
    IF ctx.event.flag THEN <<"A", "R", "B">> ELSE <<"A", "R", "C">>

\* C9: on A -> R -> B | C with rule "flag -> B" and fallback C, a run whose
\* bodies neither stop nor raise visits <<A, R, B>> when flag is true and
\* <<A, R, C>> when it is false: every run visits a prefix of that sequence
\* and a Completed run visits all of it.
C9_Scenario1Visits ==
    schema = Scenario1Schema /\ routerDef = Scenario1Router
      /\ pc \in {"loop", "body", "next", "returned"}
        => /\ IsPrefix(visited, Scenario1Expected)
           /\ pc = "returned" /\ outcome = "Completed"
                 => visited = Scenario1Expected

\* the scenario Completed on flag = false through the fallback
C9_Witness ==
    /\ schema = Scenario1Schema
    /\ pc = "returned"
    /\ outcome = "Completed"
    /\ ~ctx.event.flag
    /\ visited = <<"A", "R", "C">>

\* ------------------------------------------------------------------------
\* ConcurrentNode: a failing child
\* ------------------------------------------------------------------------

\* C10 as stated: whichever child raised, the gather fails with that child's
\* error, hands no result list to the FanOut node, and the run aborts.
C10_AnyRaisedSiblingFailsGroup ==
    \A i \in DOMAIN sibs :
        sibs[i].st = "failed"
            => /\ gather.state = "failed"
               /\ gather.error = SiblingError(i)
               /\ gather.results = <<>>
               /\ pc \in {"gather", "raised"}

\* C10 amended: once a child has raised, the gather fails with the error of
\* the child that raised first, hands no result list to the FanOut node, and
\* the run aborts: it raises that error and never returns a context.
C10_FirstRaisedSiblingFailsGroup ==
    raisedOrder # <<>>
        => /\ gather.state = "failed"
           /\ gather.error = [exc |-> "Error",
                               node |-> sibs[raisedOrder[1]].node,
                               child |-> raisedOrder[1]]
           /\ gather.results = <<>>
           /\ pc \in {"gather", "raised"}
           /\ outcome = None
           /\ pc = "raised" => err = gather.error

\* F with children X, Y, Z: Y raised after X returned, the run raised Y's
\* error, and X's update is still in the context
C10_Witness ==
    /\ schema = Scenario3Schema
    /\ pc = "raised"
    /\ raisedOrder = <<2>>
    /\ err = SiblingError(2)
    /\ sibs[1].st = "done"
    /\ "A" \in DOMAIN ctx.nodes

\* ------------------------------------------------------------------------
\* ConcurrentNode: results and join
\* ------------------------------------------------------------------------

\* the children the FanOut's NodeConfig declares
DeclaredSiblings ==
    nodes[CHOOSE f \in FanOutIds : f \in DOMAIN nodes].concurrent_nodes

\* C11: when every child of a FanOut group has returned, the gather hands
\* back a list with one result per declared child, the i-th result being the
\* i-th declared child's, whatever the order in which the children returned;
\* with no child declared the list is empty.
C11_ResultsInDeclaredOrder ==
    gather.state = "done"
        => /\ Len(gather.results) = Len(DeclaredSiblings)
           /\ \A i \in 1..Len(DeclaredSiblings) :
                 gather.results[i] =
                     [returned_by |-> DeclaredSiblings[i], child |-> i]

\* F with children X, Y, Z: they returned in the order Z, X, Y and the
\* result list is X's, Y's, Z's
C11_Witness ==
    /\ schema = Scenario3Schema
    /\ gather.state = "done"
    /\ returnedOrder = <<3, 1, 2>>
    /\ gather.results = <<[returned_by |-> "A", child |-> 1],
                          [returned_by |-> "B", child |-> 2],
                          [returned_by |-> "C", child |-> 3]>>

\* the FanOut node has handed control back to the engine, or the run is over
FanOutLeft == sibs # <<>> /\ pc \in {"next", "loop", "returned", "raised"}

\* C12: once the FanOut node has returned or raised, every declared child
\* has been joined: none is still executing, so none can touch the context
\* afterwards.
C12_SiblingsJoined ==
    FanOutLeft => \A i \in DOMAIN sibs : sibs[i].st # "running"

\* ------------------------------------------------------------------------
\* Workflow.__run: exceptions, event parsing, metadata
\* ------------------------------------------------------------------------

\* C13: when a node body raises, the exception leaves run() with the
\* context as the body left it (nothing rolled back), and from then on no
\* node body runs: the loop enters and invokes nothing (no retry), no child
\* of a FanOut makes a step, and the context and the exception stay as they
\* are.
C13_RaiseAbortsRun ==
    [][/\ pc \in {"body", "gather"} /\ pc' = "raised"
            => ctx' = ctx
       /\ pc = "raised"
            => /\ pc' = "raised" /\ err' = err
               /\ visited' = visited /\ executed' = executed
               /\ sibs' = sibs
               /\ ctx' = ctx]_vars

\* the run was started and its context holds the raw payload, not a typed
\* event: event_schema(**event) did not produce one
ParseFailed == pc # "idle" /\ "type" \notin DOMAIN ctx.event

\* C14: when the raw event does not parse, run() raises the validation error
\* before the loop: no node is entered, no body invoked, no child launched,
\* no router rule evaluated, nothing logged.
C14_ParseFailureBeforeLoop ==
    ParseFailed
        => /\ pc = "raised"
           /\ err = "ValidationError"
           /\ visited = <<>>
           /\ executed = <<>>
           /\ sibs = <<>>
           /\ evals = <<>>
           /\ log = <<>>

\* a run on a workflow with a router has raised on the payload without the
\* required field
C14_Witness ==
    /\ schema = Scenario1Schema
    /\ pc = "raised"
    /\ ctx.event = <<>>
    /\ outcome = None

\* the metadata entries other than the transient node map
OtherMetadata(c) == [k \in (DOMAIN c.metadata) \ {"nodes"} |-> c.metadata[k]]

\* C15: while a node body or a FanOut child executes, metadata["nodes"] is
\* the workflow's identity -> NodeConfig map; the context run() returns,
\* Completed or Stopped, has no "nodes" entry and every other metadata entry
\* as it was before the return.
C15_NodeMapTransient ==
    [][/\ pc' \in {"body", "gather"} \/ (\E i \in DOMAIN sibs' : sibs'[i].st = "running")
            => /\ "nodes" \in DOMAIN ctx'.metadata
               /\ ctx'.metadata["nodes"] = nodes'
       /\ pc # "returned" /\ pc' = "returned"
            => /\ "nodes" \notin DOMAIN ctx'.metadata
               /\ ctx'.metadata = OtherMetadata(ctx)
               /\ outcome' \in {"Completed", "Stopped"}]_vars

\* a Stopped run has returned a context whose metadata holds the entry a
\* body wrote and no node map
C15_Witness ==
    /\ pc = "returned"
    /\ outcome = "Stopped"
    /\ DOMAIN ctx.metadata = {"priority"}
    /\ ctx.metadata["priority"] = "high"

\* ------------------------------------------------------------------------
\* TaskContext.update_node
\* ------------------------------------------------------------------------

\* the record update_node found under the node name, empty when absent
RecordBefore(c, n) == IF n \in DOMAIN c.nodes THEN c.nodes[n] ELSE <<>>

\* C16: update_node(n, fields) leaves results[n] present with every field of
\* fields at its new value and every other field that was there at its old
\* value, and nothing else; absent before, results[n] is exactly fields. No
\* other record and no other part of the context changes.
C16_UpdateNodeMerges ==
    [][call'.op = "update_node"
          => LET n == call'.node_name
                 fields == call'.kwargs
                 old == RecordBefore(ctx, n)
             IN /\ n \in DOMAIN ctx'.nodes
                /\ DOMAIN ctx'.nodes[n] = DOMAIN old \cup DOMAIN fields
                /\ \A k \in DOMAIN fields : ctx'.nodes[n][k] = fields[k]
                /\ \A k \in DOMAIN old \ DOMAIN fields :
                      ctx'.nodes[n][k] = old[k]
                /\ DOMAIN ctx'.nodes = DOMAIN ctx.nodes \cup {n}
                /\ \A m \in DOMAIN ctx.nodes \ {n} : ctx'.nodes[m] = ctx.nodes[m]
                /\ ctx'.event = ctx.event
                /\ ctx'.metadata = ctx.metadata
                /\ ctx'.should_stop = ctx.should_stop]_vars

\* update_node("A", x=2) has overwritten x and kept y, B's record untouched
C16_Witness ==
    /\ call = [op |-> "update_node", node_name |-> "A", kwargs |-> ("x" :> 2)]
    /\ "A" \in DOMAIN ctx.nodes /\ "B" \in DOMAIN ctx.nodes
    /\ DOMAIN ctx.nodes["A"] = {"x", "y"}
    /\ ctx.nodes["A"]["x"] = 2
    /\ ctx.nodes["A"]["y"] = 1
    /\ DOMAIN ctx.nodes["B"] = {"y"}

\* ------------------------------------------------------------------------
\* C17, C18: two runs of one program
\* ------------------------------------------------------------------------

\* the context of the run that does not hold the event loop
ParkedContext == Load(heap, ContextOf(Other(me)))

\* event_schema accepted the run's event
Parsed(c) == "type" \in DOMAIN c.event

RECURSIVE Played(_, _, _)

\* the context once the body of class n has made its operations from the
\* i-th on, no other coroutine running in between
Played(c, n, i) ==
    IF i > Len(script[n].effects) THEN c
    ELSE Played(Effect(c, n, script[n].effects[i]), n, i + 1)

RECURSIVE PlayedAll(_, _, _)

\* the context once the children of a FanOut have made their operations
PlayedAll(c, children, i) ==
    IF i > Len(children) THEN c
    ELSE PlayedAll(Played(c, children[i], 1), children, i + 1)

\* process() of the node registered for n raises
Raises(n) ==
    IF nodes[n].node \in FanOutIds
    THEN \E i \in DOMAIN nodes[n].concurrent_nodes :
            script[nodes[n].concurrent_nodes[i]].ends = "raise"
    ELSE script[nodes[n].node].ends = "raise"

\* the context process() of the node registered for n returns
AfterBody(c, n) ==
    IF nodes[n].node \in FanOutIds
    THEN PlayedAll(c, nodes[n].concurrent_nodes, 1)
    ELSE Played(c, nodes[n].node, 1)

RECURSIVE Alone(_, _, _)

\* a run executed with nothing else on the event loop, from node n with
\* context c after the visits vis: what it visits and how it ends
Alone(n, c, vis) ==
    IF n = None
    THEN [visited |-> vis, pc |-> "returned", outcome |-> "Completed", ctx |-> pop_nodes(c)]
    ELSE IF c.should_stop
    THEN [visited |-> vis, pc |-> "returned", outcome |-> "Stopped", ctx |-> pop_nodes(c)]
    ELSE IF n \notin DOMAIN nodes
    THEN [visited |-> vis, pc |-> "raised", outcome |-> None, ctx |-> c]
    ELSE
    LET cfg == FirstConfig(schema, n)
        isRouter == nodes[n].node \in RouterIds
        seen == Append(vis, n)
        after == IF isRouter THEN c ELSE AfterBody(c, n)
    IN IF ~isRouter /\ Raises(n)
       THEN [visited |-> seen, pc |-> "raised", outcome |-> None, ctx |-> c]
       ELSE IF cfg = NoConfig \/ cfg.connections = <<>>
       THEN Alone(None, after, seen)
       ELSE IF ~cfg.is_router
       THEN Alone(cfg.connections[1], after, seen)
       ELSE IF isRouter
       THEN Alone(route(routerDef, after).next, after, seen)
       ELSE [visited |-> seen, pc |-> "raised", outcome |-> None, ctx |-> after]

\* the run of the parsed event ev executed alone
AloneRun(ev) == Alone(schema.start, inject_nodes(TaskContext(ev), nodes), <<>>)

\* a finished run with locals f and context c ended as it would have alone
AsIfAlone(f, c) ==
    (f.pc \in {"returned", "raised"} /\ Parsed(c))
    => LET alone == AloneRun(c.event)
       IN /\ f.visited = alone.visited
          /\ f.pc = alone.pc
          /\ f.outcome = alone.outcome
          /\ f.pc = "returned" => c = alone.ctx

\* C18: two runs interleaved on one Workflow instance each keep their own
\* TaskContext: a run resumed after the other one ran finds its event, nodes,
\* metadata and should_stop as it left them, and each finished run visited the
\* nodes and returned the context it would have visited and returned alone.
C18_RunsIndependent ==
    /\ [](AsIfAlone(Frame, ctx)
          /\ (parked.pc # "idle" => AsIfAlone(parked, ParkedContext)))
    /\ [][(me' # me /\ parked.pc # "idle") => ctx' = parked.seen]_vars

\* both runs suspended inside the FanOut before either left it, they took
\* different events, and the run that finished first returned with the stop
\* flag set while the other one returned with the flag unset and with results
\* under other node names
C18_Witness ==
    /\ Len(log) >= 2 /\ log[1] = LogStart("F") /\ log[2] = LogStart("F")
    /\ pc = "returned" /\ parked.pc = "returned"
    /\ ctx.event # parked.seen.event
    /\ ParkedContext.should_stop /\ ~ctx.should_stop
    /\ DOMAIN ctx.nodes # DOMAIN ParkedContext.nodes

\* ------------------------------------------------------------------------
\* C19: termination
\* ------------------------------------------------------------------------

\* C19 (as claimed): a run of a workflow whose schema passed validation enters
\* no node identity more than once, so it makes at most as many loop
\* iterations as the materialized map has nodes.
C19_NoNodeTwice ==
    wf = "ready"
    => /\ \A i, j \in DOMAIN visited : visited[i] = visited[j] => i = j
       /\ Len(visited) <= Cardinality(DOMAIN nodes)

\* ------------------------------------------------------------------------
\* C20: db_session
\* ------------------------------------------------------------------------

\* how many times the call c was made on the session
Times(c) == Cardinality({i \in DOMAIN session.calls : session.calls[i] = c})

\* process_incoming_event has returned or raised
Done == task.pc = "done"

\* C20 (as claimed): the session is committed exactly when the block completed
\* without raising; when the block raised the session was rolled back, not
\* committed, and the exception reached the caller; the session is closed
\* exactly once, last; a task_context is stored only if workflow.run returned.
C20_CommitOrRollback ==
    Done
    => /\ Times("commit") > 0 <=> task.body = "completed"
       /\ task.body = "raised"
             => Times("rollback") > 0 /\ Times("commit") = 0 /\ task.raised # "none"
       /\ Times("close") = 1
       /\ session.calls[Len(session.calls)] = "close"
       /\ session.committed # <<>> => task.task_context # <<>>

\* C20 (amended): commit() is called exactly when the block completed; an
\* Exception raised by the block or by commit() is answered by rollback() and
\* re-raised; a BaseException outside Exception skips the handler: no
\* rollback(), and it propagates; close() is called exactly once, last, on
\* every path; what is committed is the task_context workflow.run returned.
C20_CommitOrRollbackOfExceptions ==
    /\ ~Done => Times("close") = 0
    /\ Done
       => /\ Times("commit") = (IF task.body = "completed" THEN 1 ELSE 0)
          /\ Times("rollback") = (IF task.exc = "Exception" THEN 1 ELSE 0)
          /\ task.raised = task.exc
          /\ task.body = "raised" => task.raised # "none"
          /\ Times("close") = 1
          /\ session.calls[Len(session.calls)] = "close"
          /\ \A i, j \in DOMAIN session.calls :
                (session.calls[i] = "commit" /\ session.calls[j] = "rollback") => i < j
          /\ session.pending = <<>>
          /\ session.committed # <<>>
                <=> (task.body = "completed" /\ task.raised = "none")
          /\ session.committed # <<>>
                => /\ task.task_context # <<>>
                   /\ session.committed[1] = [id |-> task.event_id,
                                              task_context |-> task.task_context[1]]

\* workflow.run returned, repository.update then raised an Exception: the
\* pending write was rolled back, nothing was committed, the session closed
C20_Witness ==
    /\ Done
    /\ task.task_context # <<>>
    /\ task.body = "raised" /\ task.raised = "Exception"
    /\ session.calls = <<"rollback", "close">>
    /\ session.committed = <<>>

\* ------------------------------------------------------------------------
\* C21: temporary files
\* ------------------------------------------------------------------------

\* C21 (as claimed): once temporary_file_handler has been left, on whatever
\* path, no file this invocation created is on disk.
C21_NoTemporaryFileLeft ==
    handler.pc = "done" => handler.created \cap DOMAIN disk = {}

\* ------------------------------------------------------------------------
\* C22, C23: text extraction
\* ------------------------------------------------------------------------

\* extract_text was called with a file_type other than "txt" and "pdf"
Unsupported == doc.pc = "done" /\ doc.file_type \notin {"txt", "pdf"}

\* extract_text did not return
Failed == doc.pc = "done" /\ ~doc.outcome.ok

\* C22 (as claimed): every file_type other than "txt" and "pdf" fails with the
\* ProcessingError "Unsupported file type", and every failure of extract_text
\* is a ProcessingError.
C22_AlwaysProcessingError ==
    /\ Unsupported => /\ Failed
                      /\ doc.outcome.message = "Unsupported file type"
    /\ Failed => doc.outcome.type = "ProcessingError"

\* C22 (amended): every file_type other than "txt" and "pdf" fails with the
\* ProcessingError "Unsupported file type"; every Exception raised during
\* extraction surfaces as a ProcessingError; an exception that is no Exception
\* (KeyboardInterrupt) surfaces as it is.
C22_ExceptionsBecomeProcessingError ==
    /\ Unsupported => /\ Failed
                      /\ doc.outcome.type = "ProcessingError"
                      /\ doc.outcome.message = "Unsupported file type"
    /\ (Failed /\ doc.fault # "KeyboardInterrupt") => doc.outcome.type = "ProcessingError"
    /\ (Failed /\ doc.outcome.type # "ProcessingError")
          => /\ doc.fault = "KeyboardInterrupt"
             /\ doc.outcome.type = "KeyboardInterrupt"
             /\ doc.file_type \in {"txt", "pdf"}

\* open() raised an OSError on a txt file and the caller got a ProcessingError
C22_Witness ==
    /\ Failed
    /\ doc.file_type = "txt"
    /\ doc.fault = "OSError"
    /\ doc.outcome.type = "ProcessingError"
    /\ doc.outcome.message = "Failed to extract text from file"

\* the length of the content between its first and its last byte that is no
\* whitespace
StrippedLength(t) ==
    LET solid == {i \in DOMAIN t : t[i] \notin Whitespace} IN
    IF solid = {} THEN 0
    ELSE (CHOOSE i \in solid : \A j \in solid : j <= i)
         - (CHOOSE i \in solid : \A j \in solid : i <= j) + 1

RECURSIVE WordsFrom(_, _)

\* the whitespace-separated words of t from position i on, counted by their
\* last characters
WordsFrom(t, i) ==
    IF i > Len(t) THEN 0
    ELSE (IF t[i] \notin Whitespace /\ (i = Len(t) \/ t[i + 1] \in Whitespace)
          THEN 1 ELSE 0) + WordsFrom(t, i + 1)

\* extract_text ran on a readable txt file
TxtExtracted == doc.pc = "done" /\ doc.file_type = "txt" /\ doc.fault = "none"

\* C23: for a txt file, zero bytes fail with "File is empty"; a content of
\* fewer than MIN_CONTENT_LENGTH characters after stripping fails with
\* "Document content too short"; any other content is returned as decoded,
\* byte for character, blanks at both ends kept, with character_count its
\* length and word_count the number of its whitespace-separated words.
C23_TxtLengthBoundary ==
    TxtExtracted
    => LET raw == doc.raw
           out == doc.outcome
       IN /\ raw = <<>> => (~out.ok /\ out.type = "ProcessingError"
                            /\ out.message = "File is empty")
          /\ (raw # <<>> /\ StrippedLength(raw) < MIN_CONTENT_LENGTH)
                => (~out.ok /\ out.type = "ProcessingError"
                    /\ out.message = "Document content too short")
          /\ StrippedLength(raw) >= MIN_CONTENT_LENGTH
                => /\ out.ok
                   /\ Len(out.text) = Len(raw)
                   /\ \A i \in DOMAIN raw : raw[i] # BadByte => out.text[i] = raw[i]
                   /\ out.metadata.character_count = Len(out.text)
                   /\ out.metadata.word_count = WordsFrom(out.text, 1)

\* a content of exactly MIN_CONTENT_LENGTH characters between a leading and a
\* trailing blank, in two words, was returned with the blanks
C23_Witness ==
    /\ TxtExtracted
    /\ StrippedLength(doc.raw) = MIN_CONTENT_LENGTH
    /\ Len(doc.raw) = MIN_CONTENT_LENGTH + 2
    /\ doc.outcome.ok
    /\ doc.outcome.text = doc.raw
    /\ doc.outcome.metadata.word_count = 2

\* ------------------------------------------------------------------------
\* C24, C25: the validator's order and purity
\* ------------------------------------------------------------------------

\* C24 (as claimed): a schema whose declared edges have a cycle, and which
\* also has an unreachable node or an arity violation, fails with the cycle
\* error; a schema without a cycle that has an unreachable node and an arity
\* violation fails with the unreachable-nodes error.
C24_FirstFailingCheckReported ==
    Constructed
    => LET E == DeclaredEdges(schema)
           cyclic == HasDirectedCycle(E)
           unreachable == Unreachable(schema, E) # {}
           arity == ArityOffenders(schema) # {}
       IN /\ (cyclic /\ (unreachable \/ arity)) => verr.kind = "cycle"
          /\ (~cyclic /\ unreachable /\ arity) => verr.kind = "unreachable"

\* C25: validate() is called once, by the constructor, and never by run() or
\* run_async(); it leaves the schema as it was; validating the same schema
\* again gives the outcome the constructor got.
C25_ValidatedOnceAtConstruction ==
    /\ [](/\ validations = (IF Constructed THEN 1 ELSE 0)
          /\ Constructed => verr = validate(schema))
    /\ [][/\ schema' = schema
          /\ validations' # validations => ~Constructed /\ Constructed']_vars

\* a validated workflow has run at least two nodes and returned
C25_Witness ==
    /\ validations = 1
    /\ wf = "ready"
    /\ pc = "returned"
    /\ Len(executed) >= 2

\* ------------------------------------------------------------------------
\* C26 .. C30: one pass of the loop
\* ------------------------------------------------------------------------

\* the loop is at a BaseRouter class: about to enter it, or choosing after it
RouterVisit ==
    /\ cur # None
    /\ cur \in DOMAIN nodes
    /\ nodes[cur].node \in RouterIds
    /\ \/ pc = "next"
       \/ pc = "loop" /\ ~ctx.should_stop

\* C26: a visit of a Router node never invokes process(): the context (event,
\* results, metadata, stop flag) is the one from before the visit, no node is
\* added to the executed ones, and only the current node and the histories
\* of the visit change.
C26_RouterVisitKeepsContext ==
    [][RouterVisit
       => /\ ctx' = ctx
          /\ executed' = executed
          /\ UNCHANGED <<schema, nodes, sibs, gather, bodySteps, outcome>>]_vars

\* a run went through a router after a task had written its result, and
\* returned with that result
C26_Witness ==
    /\ pc = "returned"
    /\ evals # <<>>
    /\ executed # <<>>
    /\ \E i \in 1..Len(visited) :
          /\ visited[i] \in RouterIds
          /\ i > 1
          /\ i < Len(visited)

\* a node that is no BaseRouter has completed: the loop picks what follows
AfterNonRouter ==
    /\ pc = "next"
    /\ nodes[cur].node \notin RouterIds

\* C27 (as claimed): after a Task or FanOut node completes, the next node is
\* the first entry of its configured successor list; with an empty list, or
\* no NodeConfig of its own, there is no next node and the run ends Completed.
C27_NextIsFirstSuccessor ==
    [][/\ AfterNonRouter
          => LET node_config == FirstConfig(schema, cur)
             IN /\ pc' = "loop"
                /\ cur' = IF node_config = NoConfig THEN None
                          ELSE IF node_config.connections = <<>> THEN None
                          ELSE node_config.connections[1]
       /\ pc = "loop" /\ cur = None => outcome' = "Completed"]_vars

\* child i of the FanOut group is executing while the stop flag is set
ExecutingUnderStop(i) ==
    /\ sibs[i].st = "running"
    /\ ctx.should_stop

\* C28 (as claimed): the stop flag is sampled only at the top of the loop; a
\* node or FanOut child that is executing when the flag is set always runs to
\* completion (it returns or raises by itself), its mutations are in the
\* returned context, and the start node is always entered.
C28_StopSampledAtLoopBoundary ==
    /\ [](pc = "returned"
          => /\ visited # <<>>
             /\ visited[1] = schema.start
             /\ \A i \in DOMAIN sibs : sibs[i].st = "done")
    /\ [][/\ (outcome # "Stopped" /\ outcome' = "Stopped") => pc = "loop"
          /\ \A i \in DOMAIN sibs :
                ExecutingUnderStop(i)
                => /\ i \in DOMAIN sibs'
                   /\ sibs'[i].st \in {"running", "done", "failed"}
                   /\ sibs'[i].steps >= sibs[i].steps]_vars

\* the "Starting node" and "Finished node" entries of the log, in order
IsBoundary(e) == e[1] \in {"Starting node", "Finished node"}
Boundaries == SelectSeq(log, IsBoundary)

\* a node body is executing: node_context has been entered and not left
InsideNode == pc \in {"body", "gather"}

\* C29: every node the loop visits has its "Starting node" entry before its
\* body and exactly one "Finished node" entry after it, also when the body
\* raises; the pairs follow the visits one after the other, so each exit
\* precedes the next enter and no two pairs overlap or nest.
C29_EnterExitPaired ==
    /\ Len(Boundaries) = 2 * Len(visited) - (IF InsideNode THEN 1 ELSE 0)
    /\ \A k \in 1..Len(visited) :
          /\ Boundaries[2 * k - 1] = LogStart(visited[k])
          /\ 2 * k <= Len(Boundaries) => Boundaries[2 * k] = LogFinish(visited[k])

\* a run entered a node and left it, then entered a second one whose body
\* raised
C29_Witness ==
    /\ pc = "raised"
    /\ Len(visited) >= 2
    /\ \E i \in 1..Len(log) : log[i] = LogError(visited[Len(visited)])

\* an exception aborted the run while a node was current: every raise but
\* the event's parse failure, which happens before the loop
AbortedAtNode == pc = "raised" /\ ~ParseFailed

\* C30 (as claimed): every exception that aborts a run while a node is
\* current, raised by a process or by a router's rule evaluation, has an
\* "Error in node" log entry naming that node before it reaches the caller.
C30_ErrorsLoggedWithNode ==
    AbortedAtNode => \E i \in 1..Len(log) : log[i] = LogError(cur)

\* ------------------------------------------------------------------------
\* C31 .. C35: the materialized map, the edges followed, the three lookups
\* ------------------------------------------------------------------------

\* every identity some NodeConfig lists as a successor
Referenced(S) ==
    UNION {ToSet(S.nodes[i].connections) : i \in 1..Len(S.nodes)}

\* the NodeConfigs the schema lists for identity n
ExplicitConfigs(S, n) ==
    {S.nodes[i] : i \in {k \in 1..Len(S.nodes) : S.nodes[k].node = n}}

\* C31: the map built at construction has an entry for every configured node
\* and every node referenced as a successor, and for nothing else; a node
\* with an explicit NodeConfig maps to an explicit config of its own wherever
\* the configs are listed, and a successor without one maps to the empty
\* NodeConfig (no successors, not a router, no concurrent children).
C31_MapCoversConfiguredAndReferenced ==
    wf = "ready"
    => /\ DOMAIN nodes = Configured(schema) \cup Referenced(schema)
       /\ \A n \in DOMAIN nodes :
             IF n \in Configured(schema)
             THEN nodes[n] \in ExplicitConfigs(schema, n)
             ELSE nodes[n] = DefaultConfig(n)

\* a node is referenced as a successor by the config listed before its own,
\* which is not the empty one, and another successor has no config at all
C31_Witness ==
    /\ wf = "ready"
    /\ Len(schema.nodes) = 2
    /\ schema.nodes[2].node \in ToSet(schema.nodes[1].connections)
    /\ schema.nodes[2] # DefaultConfig(schema.nodes[2].node)
    /\ Referenced(schema) \ Configured(schema) # {}

\* C32 (as claimed): whenever a run of a validated workflow moves from node X
\* to node Y, Y is in X's configured successor list, also when X is a Router
\* and Y is what a rule or the fallback returned.
C32_TransitionsFollowDeclaredEdges ==
    [][(pc = "next" /\ pc' = "loop" /\ cur' # None)
       => <<cur, cur'>> \in DeclaredEdges(schema)]_vars

\* C33 (as claimed): in a run of a validated workflow the lookup
\* self.nodes[current_node_class] never fails: the start identity and every
\* node the loop moves to have an entry in the materialized map.
C33_CurrentNodeInMap ==
    (wf = "ready" /\ pc = "loop" /\ cur # None) => cur \in DOMAIN nodes

\* C34 (as claimed): the loop skips process() for exactly the nodes whose
\* successor it picks by evaluating rules: no node has its process invoked
\* and is then routed (is_router with successors), and no node has its
\* process skipped and is then advanced by connections[0].
C34_RouterTreatedConsistently ==
    (pc = "next" /\ FirstConfig(schema, cur).connections # <<>>)
    => (FirstConfig(schema, cur).is_router <=> nodes[cur].node \in RouterIds)

\* C35 (as claimed): when a schema lists several NodeConfigs for one identity,
\* the config the validator and _get_next_node_class read (the first listed)
\* and the config stored in the materialized map are the same NodeConfig.
C35_OneConfigPerIdentity ==
    wf = "ready"
    => \A n \in Configured(schema) : nodes[n] = FirstConfig(schema, n)

\* ------------------------------------------------------------------------
\* C36: updates of FanOut children
\* ------------------------------------------------------------------------

\* the update_node calls of the group: child, position in its body
Written ==
    {c \in (DOMAIN script) \X (1..MaxWrites) : c[2] <= Len(script[c[1]])}

\* no other call of the group writes the same field of the same key
Unrivalled(c) ==
    \A d \in Written :
        (script[d[1]][d[2]] = script[c[1]][c[2]]) => d = c

\* the gather has resolved and the FanOut's process has returned
Joined == gather.state = "done" /\ pc \in {"next", "loop", "returned"}

\* C36: after the join the context holds every field written by every child,
\* in every interleaving of their update_node calls, whether the children
\* write to different keys or to different fields of one key; a field only
\* one call writes holds that call's value.
C36_NoUpdateLost ==
    Joined
    => \A c \in Written :
          LET w == script[c[1]][c[2]]
          IN /\ w.key \in DOMAIN ctx.nodes
             /\ w.field \in DOMAIN ctx.nodes[w.key]
             /\ Unrivalled(c) => ctx.nodes[w.key][w.field] = c[1]

\* two children wrote different fields of one key, and the run returned
C36_Witness ==
    /\ pc = "returned"
    /\ \E c, d \in Written :
          /\ c[1] # d[1]
          /\ script[c[1]][c[2]].key = script[d[1]][d[2]].key
          /\ script[c[1]][c[2]].field # script[d[1]][d[2]].field

\* ------------------------------------------------------------------------
\* C37 .. C39
\* ------------------------------------------------------------------------

\* the loop is choosing after a node flagged is_router that lists no successor
AtDeadEndRouter ==
    /\ pc = "next"
    /\ FirstConfig(schema, cur).is_router
    /\ FirstConfig(schema, cur).connections = <<>>

\* C37: a node flagged is_router with an empty successor list ends the run
\* as Completed with no rule and no fallback evaluated; route() is only ever
\* called for nodes flagged is_router that list at least one successor.
C37_DeadEndRouterCompletes ==
    /\ [](\A k \in 1..Len(evals) :
             /\ FirstConfig(schema, evals[k].router).is_router
             /\ FirstConfig(schema, evals[k].router).connections # <<>>)
    /\ [][/\ AtDeadEndRouter => (cur' = None /\ pc' = "loop" /\ evals' = evals)
          /\ (pc = "loop" /\ cur = None) => outcome' = "Completed"]_vars

\* a BaseRouter with a rule and a fallback, flagged is_router with no
\* successor, was visited and the run returned
C37_Witness ==
    /\ pc = "returned"
    /\ outcome = "Completed"
    /\ routerDef.routes # <<>>
    /\ visited # <<>>
    /\ FirstConfig(schema, visited[Len(visited)]).is_router
    /\ FirstConfig(schema, visited[Len(visited)]).connections = <<>>
    /\ visited[Len(visited)] \in RouterIds

\* the schema with every concurrent_nodes list emptied
Strip(S) ==
    [S EXCEPT !.nodes = [i \in DOMAIN S.nodes |->
                            [S.nodes[i] EXCEPT !.concurrent_nodes = <<>>]]]

RECURSIVE PathFrom(_, _, _, _, _)

\* the nodes the loop enters from n on under schema S when no body stops or
\* raises: the lookup in the map, then _get_next_node_class
PathFrom(S, def, c, n, acc) ==
    IF n = None \/ Len(acc) >= MaxVisits \/ n \notin DOMAIN _initialize_nodes(S)
    THEN acc
    ELSE LET node_config == FirstConfig(S, n)
             entered == Append(acc, n)
         IN IF node_config = NoConfig \/ node_config.connections = <<>>
            THEN entered
            ELSE IF node_config.is_router
            THEN IF n \in RouterIds
                 THEN PathFrom(S, def, c, route(def, c).next, entered)
                 ELSE entered
            ELSE PathFrom(S, def, c, node_config.connections[1], entered)

\* what a run of the schema without its concurrent children visits
ChildlessPath == PathFrom(Strip(schema), routerDef, ctx, schema.start, <<>>)

\* the run has entered the loop
InLoop == pc \in {"loop", "body", "gather", "next", "returned", "raised"} /\ ~ParseFailed

OtherRecords(c, K) == [n \in (DOMAIN c.nodes) \ K |-> c.nodes[n]]

\* C39: a step that writes a result record (update_node) changes the record
\* of one node and nothing else: the other records, the event, the metadata
\* and the stop flag stay; a step that sets the stop flag (stop_workflow)
\* changes nothing else; and the flag, once true, is never false again in the
\* run, whatever the engine and the bodies do next.
C39_OnlyTheNamedPartChanges ==
    [][/\ ctx.should_stop => ctx'.should_stop
       /\ ctx'.nodes # ctx.nodes
            => /\ \E n \in DOMAIN ctx'.nodes :
                     OtherRecords(ctx', {n}) = OtherRecords(ctx, {n})
               /\ ctx'.event = ctx.event
               /\ ctx'.metadata = ctx.metadata
               /\ ctx'.should_stop = ctx.should_stop
       /\ ctx'.should_stop # ctx.should_stop
            => /\ ctx'.nodes = ctx.nodes
               /\ ctx'.event = ctx.event
               /\ ctx'.metadata = ctx.metadata]_vars

\* a body set the stop flag, a result was written as well, and the run
\* returned Stopped with both
C39_Witness ==
    /\ pc = "returned"
    /\ outcome = "Stopped"
    /\ ctx.should_stop
    /\ Cardinality(DOMAIN ctx.nodes) >= 2

====
